---- MODULE Spec2Model ----
(***************************************************************************)
(* Model of the mesh slicing core of simple-slice                          *)
(* (src/src/slicer/mesh_slicer.hpp): the triangle-plane intersector, the   *)
(* greedy segment stitcher and the layer slicer; and of the functions      *)
(* around it: the ASCII STL reader, the perimeter generators and the       *)
(* G-code formatter.                                                       *)
(*                                                                         *)
(* Numbers.  A C++ double is modelled as an exact rational.  Mesh          *)
(* coordinates, plane heights, layer heights and tolerances are integers   *)
(* (multiples of one grid unit); a point computed by interpolation is a    *)
(* rational pair with a common positive denominator q, kept in lowest      *)
(* terms, so that equal points are equal values.                           *)
(***************************************************************************)
EXTENDS Integers, Sequences, FiniteSets, TLC

VARIABLES
    pc,             \* which call is modelled and where it stands
    triangle,       \* triangle_plane_segment: const Triangle& triangle
    plane_height,   \* triangle_plane_segment: double plane_height
    epsilon,        \* the double epsilon argument of the modelled call
    intersections,  \* triangle_plane_segment: std::vector<Point> intersections
    found,          \* triangle_plane_segment: the bool it returned
    output_segment, \* triangle_plane_segment: Segment2D& output_segment
    input_segments, \* stitch_segments_into_paths: the argument as passed
    line_segments,  \* stitch_segments_into_paths: the pool still to be consumed
    line_ids,       \* history: the input index of each segment of the pool
    path,           \* stitch_segments_into_paths: the Path under construction
    polylines,      \* stitch_segments_into_paths: std::vector<Path> polylines
    path_ids,       \* history: input indices of the segments put into `path`
    polyline_ids,   \* history: for each emitted path, the input indices used
    triangles,      \* slice_triangle_mesh_layers: the mesh
    layer_height,   \* slice_triangle_mesh_layers: double layer_height
    layers,         \* slice_triangle_mesh_layers: std::vector<Layer> layers
    stl_input,      \* parse_ascii_stl: the tokens of std::istream& input
    stl_triangles,  \* parse_ascii_stl: the std::vector<Triangle> it returned
    gcode_paths,    \* format_toolpath_gcode: const std::vector<Path>& paths
    gcode_layers,   \* format_toolpath_gcode: const std::vector<Layer>& layers
    precision,      \* format_toolpath_gcode: int precision
    gcode_out,      \* format_toolpath_gcode: the lines of the returned string
    rectangle,      \* generate_rectangle_perimeters: const Rectangle& rectangle
    circle,         \* generate_circle_perimeters: const Circle& circle
    spacing,        \* generate_*_perimeters: double spacing
    num_segments,   \* generate_circle_perimeters: std::size_t num_segments
    bounds,         \* generate_rectangle_perimeters: min_x, min_y, max_x, max_y
    radius,         \* generate_circle_perimeters: double radius
    perimeter_paths, \* generate_*_perimeters: std::vector<Path> paths
    shape_args,     \* Rectangle / Circle constructor: the arguments
    shape_thrown,   \* Rectangle / Circle constructor: the exception thrown
    shape_object,   \* Rectangle / Circle constructor: the object constructed
    intersect_args, \* line_segments_intersect_2d: the points a, b, c, d
    intersect_result, \* line_segments_intersect_2d: the bool it returned
    hockey_args,    \* AirHockey::AirHockey: the arguments length, width
    hockey_thrown,  \* AirHockey: the exception thrown, or "none"
    length_,        \* AirHockey::length_
    width_,         \* AirHockey::width_
    initial_position, \* puck_hit_locations: the argument initial_position
    angle,          \* puck_hit_locations: the argument angle
    position,       \* puck_hit_locations: Vector3D position
    velocity,       \* puck_hit_locations: Vector3D velocity
    hits,           \* puck_hit_locations: std::array<Point, 10> hits
    hit_index       \* puck_hit_locations: the loop index i

vars == <<pc, triangle, plane_height, epsilon, intersections, found,
          output_segment, input_segments, line_segments, line_ids, path,
          polylines, path_ids, polyline_ids, triangles, layer_height, layers,
          stl_input, stl_triangles, gcode_paths, gcode_layers, precision,
          gcode_out, rectangle, circle, spacing, num_segments, bounds, radius,
          perimeter_paths, shape_args, shape_thrown, shape_object,
          intersect_args, intersect_result, hockey_args, hockey_thrown,
          length_, width_, initial_position, angle, position, velocity, hits,
          hit_index>>

triVars == <<triangle, plane_height, intersections, found, output_segment>>
stitchVars == <<input_segments, line_segments, line_ids, path, polylines,
                path_ids, polyline_ids>>
sliceVars == <<triangles, layer_height, layers>>
stlVars == <<stl_input, stl_triangles>>
gcodeVars == <<gcode_paths, gcode_layers, precision, gcode_out>>
perimeterVars == <<rectangle, circle, spacing, num_segments, bounds, radius,
                   perimeter_paths>>

shapeVars == <<shape_args, shape_thrown, shape_object>>
intersectVars == <<intersect_args, intersect_result>>
hockeyVars == <<hockey_args, hockey_thrown, length_, width_, initial_position,
                angle, position, velocity, hits, hit_index>>

(* The variables of the constructors and of the functions outside the
   slicer *)
restVars == <<shapeVars, intersectVars, hockeyVars>>

(* The variables of the functions around the slicing core *)
extVars == <<stlVars, gcodeVars, perimeterVars, restVars>>

----------------------------------------------------------------------------
(* Bounds of the model *)

MaxXY == 2      \* mesh x and y coordinates range over 0..MaxXY
MaxZ == 4       \* mesh z coordinates and plane heights range over 0..MaxZ
MaxEps == 1     \* tolerances (in grid units) range over 0..MaxEps
MaxCleanSegs == 4    \* most segments of a clean input of the stitcher
MaxSegs == 3    \* the stitcher is given up to MaxSegs arbitrary segments
MaxTris == 2    \* the slicer is given meshes of up to MaxTris triangles
MaxDz == 2      \* layer heights range over -1..MaxDz
MaxChunks == 6  \* an STL stream is made of up to MaxChunks pieces of text
MaxPaths == 2   \* the formatter is given up to MaxPaths paths
MaxPts == 3     \* each of up to MaxPts points
MaxLayers == 3  \* the formatter is given up to MaxLayers layers
MaxPrec == 1    \* precisions range over -1..MaxPrec
MaxSide == 8    \* rectangles are 0..MaxSide wide and high
MaxSpacing == 5 \* spacings range over -1..MaxSpacing
MaxRadius == 5  \* circles have a radius in 1..MaxRadius
MaxSegments == 4 \* circles are drawn with 0..MaxSegments segments
MaxArg == 2     \* constructor arguments range over -1..MaxArg

----------------------------------------------------------------------------
(* Arithmetic helpers *)

Abs(n) == IF n < 0 THEN -n ELSE n

Min2(a, b) == IF a <= b THEN a ELSE b

Max2(a, b) == IF a >= b THEN a ELSE b

RECURSIVE Gcd(_, _)
Gcd(a, b) == IF b = 0 THEN a ELSE Gcd(b, a % b)

(* geometry::Point: coordinates x/q, y/q, z/q with q > 0 *)
Point(x, y, z) == [x |-> x, y |-> y, z |-> z, q |-> 1]

(* The point (xn/d, yn/d, 0) for d # 0, in lowest terms with q > 0 *)
RationalPoint(xn, yn, d) ==
    LET s == IF d < 0 THEN -1 ELSE 1
        g == Gcd(Gcd(Abs(xn), Abs(yn)), Abs(d))
    IN  [x |-> (s * xn) \div g, y |-> (s * yn) \div g, z |-> 0,
         q |-> (s * d) \div g]

NoPoint == Point(0, 0, 0)

NoSegment == [start_point |-> NoPoint, end_point |-> NoPoint]

----------------------------------------------------------------------------
(* Helpers of mesh_slicer.hpp *)

(* Mutant: the comparisons are strict *)
points_close_2d_Strict(point1, point2, eps) ==
    /\ Abs(point1.x * point2.q - point2.x * point1.q)
           < eps * point1.q * point2.q
    /\ Abs(point1.y * point2.q - point2.y * point1.q)
           < eps * point1.q * point2.q

(* |x1 - x2| <= epsilon and |y1 - y2| <= epsilon, on rationals *)
points_close_2d(point1, point2, eps) ==
    /\ Abs(point1.x * point2.q - point2.x * point1.q)
           <= eps * point1.q * point2.q
    /\ Abs(point1.y * point2.q - point2.y * point1.q)
           <= eps * point1.q * point2.q

(* Mutant: the duplicate test is left out *)
add_unique_point_NoDedup(points, point, eps) == Append(points, point)

add_unique_point(points, point, eps) ==
    IF \E k \in 1..Len(points) : points_close_2d(points[k], point, eps)
    THEN points
    ELSE Append(points, point)

----------------------------------------------------------------------------
(* triangle_plane_segment *)

(* The three vertices, vertices[0..2] of the code as Vertices(t)[1..3] *)
Vertices(t) == <<t.a, t.b, t.c>>

(* d = p.GetZ() - plane_height; mesh vertices have q = 1 *)
PlaneDistance(p, h) == p.z - h

(* Mutant: y is interpolated with the x extent of the edge *)
InterpolatedPoint_YUsesXDelta(p0, p1, d0, d1) ==
    RationalPoint(p0.x * (d0 - d1) + d0 * (p1.x - p0.x),
                  p0.y * (d0 - d1) + d0 * (p1.x - p0.x),
                  d0 - d1)

(* t = d0 / (d0 - d1); (x, y) = p0 + t * (p1 - p0); Point{x, y, 0.} *)
InterpolatedPoint(p0, p1, d0, d1) ==
    RationalPoint(p0.x * (d0 - d1) + d0 * (p1.x - p0.x),
                  p0.y * (d0 - d1) + d0 * (p1.y - p0.y),
                  d0 - d1)

(* Mutant: the test of the second endpoint is inverted *)
EdgeIntersections_D1TestInverted(ints, p0, p1, h, eps) ==
    LET d0 == PlaneDistance(p0, h)
        d1 == PlaneDistance(p1, h)
    IN  IF Abs(d0) <= eps /\ Abs(d1) <= eps THEN ints
        ELSE IF Abs(d0) <= eps
             THEN add_unique_point(ints, Point(p0.x, p0.y, 0), eps)
        ELSE IF Abs(d1) >= eps
             THEN add_unique_point(ints, Point(p1.x, p1.y, 0), eps)
        ELSE IF d0 * d1 < 0
             THEN add_unique_point(ints, InterpolatedPoint(p0, p1, d0, d1), eps)
        ELSE ints

(* Mutant: an edge lying in the plane is not skipped *)
EdgeIntersections_NoCoplanarSkip(ints, p0, p1, h, eps) ==
    LET d0 == PlaneDistance(p0, h)
        d1 == PlaneDistance(p1, h)
    IN  IF Abs(d0) <= eps
        THEN add_unique_point(ints, Point(p0.x, p0.y, 0), eps)
        ELSE IF Abs(d1) <= eps
             THEN add_unique_point(ints, Point(p1.x, p1.y, 0), eps)
        ELSE IF d0 * d1 < 0
             THEN add_unique_point(ints, InterpolatedPoint(p0, p1, d0, d1), eps)
        ELSE ints

(* One iteration of the edge loop: the intersections after edge p0 -> p1 *)
EdgeIntersections(ints, p0, p1, h, eps) ==
    LET d0 == PlaneDistance(p0, h)
        d1 == PlaneDistance(p1, h)
    IN  IF Abs(d0) <= eps /\ Abs(d1) <= eps THEN ints
        ELSE IF Abs(d0) <= eps
             THEN add_unique_point(ints, Point(p0.x, p0.y, 0), eps)
        ELSE IF Abs(d1) <= eps
             THEN add_unique_point(ints, Point(p1.x, p1.y, 0), eps)
        ELSE IF d0 * d1 < 0
             THEN add_unique_point(ints, InterpolatedPoint(p0, p1, d0, d1), eps)
        ELSE ints

(* The loop over the edges a->b, b->c, c->a, from edge i (0-based) on *)
RECURSIVE EdgeLoop(_, _, _, _, _)
EdgeLoop(ints, t, i, h, eps) ==
    IF i >= 3 THEN ints
    ELSE EdgeLoop(EdgeIntersections(ints, Vertices(t)[i + 1],
                                    Vertices(t)[((i + 1) % 3) + 1], h, eps),
                  t, i + 1, h, eps)

(* The result of the call: the returned bool, the output segment (left as
   the caller passed it when the call returns false) and the local vector *)
triangle_plane_segment(t, h, seg, eps) ==
    LET ints == EdgeLoop(<<>>, t, 0, h, eps)
    IN  IF Len(ints) # 2
        THEN [found |-> FALSE, segment |-> seg, intersections |-> ints]
        ELSE [found |-> TRUE,
              segment |-> [start_point |-> ints[1], end_point |-> ints[2]],
              intersections |-> ints]

----------------------------------------------------------------------------
(* stitch_segments_into_paths *)

Segment2D(p, r) == [start_point |-> p, end_point |-> r]

Front(p) == p[1]

Back(p) == p[Len(p)]

(* Mutant: the element after the matched one is erased *)
Erase_OffByOne(seq, i) ==
    [k \in 1..(Len(seq) - 1) |->
        IF k < (IF i < Len(seq) THEN i + 1 ELSE i) THEN seq[k] ELSE seq[k + 1]]

(* vector::erase(begin() + i), with i counted from 1 *)
Erase(seq, i) == [k \in 1..(Len(seq) - 1) |-> IF k < i THEN seq[k] ELSE seq[k + 1]]

(* Which branch of the if / else-if chain a candidate takes: 1 start matches
   the back, 2 end matches the back, 3 start matches the front, 4 end
   matches the front, 0 the final else (continue) *)
MatchCase(p, candidate_segment, eps) ==
    IF points_close_2d(Back(p), candidate_segment.start_point, eps) THEN 1
    ELSE IF points_close_2d(Back(p), candidate_segment.end_point, eps) THEN 2
    ELSE IF points_close_2d(Front(p), candidate_segment.start_point, eps) THEN 3
    ELSE IF points_close_2d(Front(p), candidate_segment.end_point, eps) THEN 4
    ELSE 0

(* Mutant: every branch takes the start point of the candidate *)
AttachSegment_AlwaysStart(p, candidate_segment, eps) ==
    LET c == MatchCase(p, candidate_segment, eps)
    IN  IF c = 1 \/ c = 2 THEN Append(p, candidate_segment.start_point)
        ELSE IF c = 3 \/ c = 4 THEN <<candidate_segment.start_point>> \o p
        ELSE p

(* The path after the matched branch has pushed or inserted its point *)
AttachSegment(p, candidate_segment, eps) ==
    LET c == MatchCase(p, candidate_segment, eps)
    IN  IF c = 1 THEN Append(p, candidate_segment.end_point)
        ELSE IF c = 2 THEN Append(p, candidate_segment.start_point)
        ELSE IF c = 3 THEN <<candidate_segment.end_point>> \o p
        ELSE IF c = 4 THEN <<candidate_segment.start_point>> \o p
        ELSE p

(* Mutant: the scan looks at the first segment of the pool only *)
FirstMatch_OnlyFirst(p, pool, eps) ==
    IF pool # <<>> /\ MatchCase(p, pool[1], eps) # 0 THEN 1 ELSE 0

(* The for loop: the first index (from 1) whose segment matches, 0 if the
   scan ends without a match *)
FirstMatch(p, pool, eps) ==
    IF \E i \in 1..Len(pool) : MatchCase(p, pool[i], eps) # 0
    THEN CHOOSE i \in 1..Len(pool) :
            /\ MatchCase(p, pool[i], eps) # 0
            /\ \A k \in 1..(i - 1) : MatchCase(p, pool[k], eps) = 0
    ELSE 0

(* Mutant: the closing step is left out *)
ClosePath_Never(p, eps) == p

(* Mutant: the closing point is the second point of the path *)
ClosePath_AppendsSecond(p, eps) ==
    IF Len(p) > 2 /\ points_close_2d(Front(p), Back(p), eps)
    THEN Append(p, p[2])
    ELSE p

(* Close the loop if the endpoints are nearly coincident *)
ClosePath(p, eps) ==
    IF Len(p) > 2 /\ points_close_2d(Front(p), Back(p), eps)
    THEN Append(p, Front(p))
    ELSE p

(* while (found_match): the path and the pool when no segment matches *)
RECURSIVE ExtendPath(_, _, _)
ExtendPath(p, pool, eps) ==
    LET i == FirstMatch(p, pool, eps)
    IN  IF i = 0 THEN [path |-> p, pool |-> pool]
        ELSE ExtendPath(AttachSegment(p, pool[i], eps), Erase(pool, i), eps)

(* while (!line_segments.empty()) *)
RECURSIVE StitchLoop(_, _, _)
StitchLoop(pool, lines, eps) ==
    IF pool = <<>> THEN lines
    ELSE LET seed_segment == Back(pool)
             ext == ExtendPath(<<seed_segment.start_point,
                                 seed_segment.end_point>>,
                               Erase(pool, Len(pool)), eps)
         IN  StitchLoop(ext.pool, Append(lines, ClosePath(ext.path, eps)), eps)

stitch_segments_into_paths(segs, eps) == StitchLoop(segs, <<>>, eps)

----------------------------------------------------------------------------
(* slice_triangle_mesh_layers *)

Triangle(a, b, c) == [a |-> a, b |-> b, c |-> c]

Layer(z, paths) == [z |-> z, paths |-> paths]

(* Mutant: vertex c is left out of the minimum *)
Min4_SkipsC(m, t) == Min2(Min2(m, t.a.z), t.b.z)

(* std::min({m, tri.a.GetZ(), tri.b.GetZ(), tri.c.GetZ()}) *)
Min4(m, t) == Min2(Min2(m, t.a.z), Min2(t.b.z, t.c.z))

(* std::max({m, tri.a.GetZ(), tri.b.GetZ(), tri.c.GetZ()}) *)
Max4(m, t) == Max2(Max2(m, t.a.z), Max2(t.b.z, t.c.z))

(* The loop computing min_z over the first k triangles *)
RECURSIVE MinZLoop(_, _)
MinZLoop(tris, k) ==
    IF k = 0 THEN tris[1].a.z ELSE Min4(MinZLoop(tris, k - 1), tris[k])

(* The loop computing max_z over the first k triangles *)
RECURSIVE MaxZLoop(_, _)
MaxZLoop(tris, k) ==
    IF k = 0 THEN tris[1].a.z ELSE Max4(MaxZLoop(tris, k - 1), tris[k])

(* floor(a / b) for b # 0 *)
FloorDiv(a, b) == IF b > 0 THEN a \div b ELSE (-a) \div (-b)

(* Mutant: the layer at min_z is not counted *)
LayerCount_NoPlusOne(height, dz) == FloorDiv(height, dz)

(* floor(height / layer_height + 1. + tolerance) with tolerance = 1e-12.
   With f the fractional part of height / dz, the tolerance adds one exactly
   when f + 1e-12 >= 1; f = |r| / |dz| for r = height - floor(height / dz) * dz,
   so that is when |dz| / (|dz| - |r|) >= 1e12 = 1e6 * 1e6 *)
LayerCount(height, dz) ==
    LET r == height - FloorDiv(height, dz) * dz
    IN  FloorDiv(height, dz) + 1
        + (IF ((Abs(dz) \div (Abs(dz) - Abs(r))) \div 1000000) >= 1000000
           THEN 1 ELSE 0)

(* Mutant: the segment is kept whatever the call returned *)
RECURSIVE LayerSegments_IgnoresFound(_, _, _, _)
LayerSegments_IgnoresFound(tris, k, z, keps) ==
    IF k = 0 THEN <<>>
    ELSE Append(LayerSegments_IgnoresFound(tris, k - 1, z, keps),
                triangle_plane_segment(tris[k], z, NoSegment, keps).segment)

(* The segments of one layer: every triangle, in mesh order, that returns
   true contributes its segment *)
RECURSIVE LayerSegments(_, _, _, _)
LayerSegments(tris, k, z, keps) ==
    IF k = 0 THEN <<>>
    ELSE LET res == triangle_plane_segment(tris[k], z, NoSegment, keps)
             before == LayerSegments(tris, k - 1, z, keps)
         IN  IF res.found THEN Append(before, res.segment) ELSE before

(* The layer of index i (from 0) *)
SliceLayer(tris, min_z, i, dz, keps) ==
    LET z == min_z + i * dz
    IN  Layer(z, stitch_segments_into_paths(
                     LayerSegments(tris, Len(tris), z, keps), keps * 10))

(* Mutant: only a zero layer height is rejected *)
slice_triangle_mesh_layers_ZeroOnly(tris, dz, keps) ==
    IF tris = <<>> \/ dz = 0 THEN <<>>
    ELSE LET min_z == MinZLoop(tris, Len(tris))
             max_z == MaxZLoop(tris, Len(tris))
             height == max_z - min_z
         IN  IF height < 0 THEN <<>>
             ELSE [i \in 1..LayerCount(height, dz) |->
                      SliceLayer(tris, min_z, i - 1, dz, keps)]

(* keps is geometry::kEpsilon expressed in grid units *)
slice_triangle_mesh_layers(tris, dz, keps) ==
    IF tris = <<>> \/ dz <= 0 THEN <<>>
    ELSE LET min_z == MinZLoop(tris, Len(tris))
             max_z == MaxZLoop(tris, Len(tris))
             height == max_z - min_z
         IN  IF height < 0 THEN <<>>
             ELSE [i \in 1..LayerCount(height, dz) |->
                      SliceLayer(tris, min_z, i - 1, dz, keps)]

----------------------------------------------------------------------------
(* parse_ascii_stl (stl reader).  The stream is the sequence of its
   whitespace-separated tokens, each token a string *)

(* The texts that operator>>(double&) reads as a number *)
NumberTexts == {"0", "1", "1.0", "-2"}

(* The double that the extraction gives for a number text *)
ParseDouble(text) ==
    CASE text = "0" -> 0
      [] text = "1" -> 1
      [] text = "1.0" -> 1
      [] text = "-2" -> -2

(* input >> x: fails at the end of the stream and on a token that is no
   number, and then leaves the stream failed *)
ExtractDouble(stream) ==
    IF stream = <<>> \/ Head(stream) \notin NumberTexts
    THEN [ok |-> FALSE, value |-> 0, rest |-> stream]
    ELSE [ok |-> TRUE, value |-> ParseDouble(Head(stream)), rest |-> Tail(stream)]

(* input >> x >> y >> z: an extraction from a failed stream does nothing *)
ExtractXYZ(stream) ==
    LET rx == ExtractDouble(stream)
        ry == IF rx.ok THEN ExtractDouble(rx.rest) ELSE rx
        rz == IF ry.ok THEN ExtractDouble(ry.rest) ELSE ry
    IN  [ok |-> rz.ok, x |-> rx.value, y |-> ry.value, z |-> rz.value,
         rest |-> rz.rest]

(* The parser's locals: Point vertices[3], vertex_count, triangles *)
StlState(vertices, vertex_count, tris) ==
    [vertices |-> vertices, vertex_count |-> vertex_count, triangles |-> tris]

(* Mutant: vertex_count is not reset after a triangle *)
StoreVertex_NoReset(st, pt) ==
    LET stored == IF st.vertex_count < 3
                  THEN StlState([st.vertices EXCEPT ![st.vertex_count + 1] = pt],
                                st.vertex_count + 1, st.triangles)
                  ELSE st
    IN  IF stored.vertex_count = 3
        THEN StlState(stored.vertices, 3,
                      Append(stored.triangles,
                             Triangle(stored.vertices[1], stored.vertices[2],
                                      stored.vertices[3])))
        ELSE stored

(* Collect exactly three vertices per triangle; emit a triangle and reset *)
StoreVertex(st, pt) ==
    LET stored == IF st.vertex_count < 3
                  THEN StlState([st.vertices EXCEPT ![st.vertex_count + 1] = pt],
                                st.vertex_count + 1, st.triangles)
                  ELSE st
    IN  IF stored.vertex_count = 3
        THEN StlState(stored.vertices, 0,
                      Append(stored.triangles,
                             Triangle(stored.vertices[1], stored.vertices[2],
                                      stored.vertices[3])))
        ELSE stored

(* while (input >> token) *)
RECURSIVE ParseLoop(_, _)
ParseLoop(stream, st) ==
    IF stream = <<>> THEN st.triangles
    ELSE IF Head(stream) # "vertex" THEN ParseLoop(Tail(stream), st)
    ELSE LET r == ExtractXYZ(Tail(stream))
         IN  IF ~r.ok THEN st.triangles
             ELSE ParseLoop(r.rest, StoreVertex(st, Point(r.x, r.y, r.z)))

parse_ascii_stl(input) ==
    ParseLoop(input, StlState(<<Point(0, 0, 0), Point(0, 0, 0), Point(0, 0, 0)>>,
                              0, <<>>))

----------------------------------------------------------------------------
(* format_toolpath_gcode (toolpath.hpp).  The returned string is the
   sequence of its lines, each line the command word and its arguments, an
   argument the axis letter and the text of the number, character by
   character *)

DigitChars == <<"0", "1", "2", "3", "4", "5", "6", "7", "8", "9">>

(* The decimal digits of the natural number n *)
RECURSIVE Digits(_)
Digits(n) ==
    IF n < 10 THEN <<DigitChars[n + 1]>>
    ELSE Append(Digits(n \div 10), DigitChars[(n % 10) + 1])

RECURSIVE Pow10(_)
Pow10(p) == IF p = 0 THEN 1 ELSE 10 * Pow10(p - 1)

(* The digits of n written with at least width digits *)
RECURSIVE PadZeros(_, _)
PadZeros(digits, width) ==
    IF Len(digits) >= width THEN digits ELSE PadZeros(<<"0">> \o digits, width)

(* out << std::fixed << std::setprecision(prec) << num/den, for den > 0 and
   prec >= 0: the value rounded to prec decimals, a tie to the even digit,
   the decimal point only when prec > 0 *)
FormatFixed(num, den, prec) ==
    LET scaled == Abs(num) * Pow10(prec)
        low == scaled \div den
        rest == scaled % den
        rounded == IF 2 * rest > den \/ (2 * rest = den /\ low % 2 = 1)
                   THEN low + 1 ELSE low
    IN  (IF num < 0 THEN <<"-">> ELSE <<>>)
        \o Digits(rounded \div Pow10(prec))
        \o (IF prec > 0
            THEN <<".">> \o PadZeros(Digits(rounded % Pow10(prec)), prec)
            ELSE <<>>)

(* if (precision < 0) precision = 0 *)
ClampPrecision(prec) == IF prec < 0 THEN 0 ELSE prec

(* out << cmd << " X" << p.GetX() << " Y" << p.GetY() << "\n" *)
MoveLine(cmd, p, prec) ==
    [cmd |-> cmd, args |-> << <<"X", FormatFixed(p.x, p.q, prec)>>,
                              <<"Y", FormatFixed(p.y, p.q, prec)>> >>]

(* out << "G0 Z" << layer.z << "\n" *)
HeightLine(z, prec) == [cmd |-> "G0", args |-> << <<"Z", FormatFixed(z, 1, prec)>> >>]

(* Mutant: the loop over the subsequent points starts one point late *)
FormatPath_SkipsSecond(p, prec) ==
    IF p = <<>> THEN <<>>
    ELSE <<MoveLine("G0", Front(p), prec)>>
         \o [i \in 1..(Len(p) - 2) |-> MoveLine("G1", p[i + 2], prec)]

(* The body of the loop over the paths: nothing for an empty path, else G0
   to the front and G1 to path[i] for i = 1 .. size - 1 *)
FormatPath(p, prec) ==
    IF p = <<>> THEN <<>>
    ELSE <<MoveLine("G0", Front(p), prec)>>
         \o [i \in 1..(Len(p) - 1) |-> MoveLine("G1", p[i + 1], prec)]

(* for (const auto& path : paths), over the first k paths *)
RECURSIVE FormatPaths(_, _, _)
FormatPaths(paths, k, prec) ==
    IF k = 0 THEN <<>>
    ELSE FormatPaths(paths, k - 1, prec) \o FormatPath(paths[k], prec)

format_toolpath_gcode(paths, prec) ==
    FormatPaths(paths, Len(paths), ClampPrecision(prec))

(* Mutant: the height line follows the moves of its layer *)
FormatLayer_HeightLast(layer, prec) ==
    format_toolpath_gcode(layer.paths, prec) \o <<HeightLine(layer.z, prec)>>

(* The body of the loop over the layers *)
FormatLayer(layer, prec) ==
    <<HeightLine(layer.z, prec)>> \o format_toolpath_gcode(layer.paths, prec)

(* for (const auto& layer : layers), over the first k layers *)
RECURSIVE FormatLayers(_, _, _)
FormatLayers(lays, k, prec) ==
    IF k = 0 THEN <<>>
    ELSE FormatLayers(lays, k - 1, prec) \o FormatLayer(lays[k], prec)

(* The overload taking const std::vector<Layer>& *)
format_toolpath_gcode_layers(lays, prec) ==
    FormatLayers(lays, Len(lays), ClampPrecision(prec))

----------------------------------------------------------------------------
(* generate_rectangle_perimeters and generate_circle_perimeters
   (perimeters.hpp) *)

(* struct Rectangle; its constructor throws unless min <= max on both axes *)
Rectangle(min_x, min_y, max_x, max_y) ==
    [min_x |-> min_x, min_y |-> min_y, max_x |-> max_x, max_y |-> max_y]

(* struct Circle; its constructor throws unless radius > 0 *)
Circle(center_x, center_y, r) ==
    [center_x |-> center_x, center_y |-> center_y, radius |-> r]

(* if (spacing <= 0.) return paths *)
RectangleParametersInvalid(s) == s <= 0

(* Mutant: the loop goes on while one axis is left *)
RectangleLeft_EitherAxis(b) == b.min_x < b.max_x \/ b.min_y < b.max_y

(* while (min_x < max_x && min_y < max_y) *)
RectangleLeft(b) == b.min_x < b.max_x /\ b.min_y < b.max_y

(* bottom left, bottom right, top right, top left, bottom left *)
RectangleLoop(b) ==
    <<Point(b.min_x, b.min_y, 0), Point(b.max_x, b.min_y, 0),
      Point(b.max_x, b.max_y, 0), Point(b.min_x, b.max_y, 0),
      Point(b.min_x, b.min_y, 0)>>

(* Move the rectangle inward by the spacing *)
Inward(b, s) == Rectangle(b.min_x + s, b.min_y + s, b.max_x - s, b.max_y - s)

(* Mutant: a perimeter of two segments is accepted *)
CircleParametersInvalid_TwoSegments(s, n) == s <= 0 \/ n < 2

(* if (spacing <= 0. || num_segments < 3) return paths *)
CircleParametersInvalid(s, n) == s <= 0 \/ n < 3

(* Point{center_x + radius * cos(theta), center_y + radius * sin(theta), 0.}
   for theta = 2 * pi * i / n.  The cosine and the sine are not computed:
   the point is named by the circle, the radius and the angle i / n *)
CirclePoint(c, r, i, n) ==
    [center_x |-> c.center_x, center_y |-> c.center_y, radius |-> r,
     turn |-> <<i, n>>, z |-> 0]

(* Mutant: the path is not closed *)
CircleLoop_Open(c, r, n) == [k \in 1..n |-> CirclePoint(c, r, k - 1, n)]

(* The points for i = 0 .. num_segments - 1, then path.front() again *)
CircleLoop(c, r, n) ==
    LET open == [k \in 1..n |-> CirclePoint(c, r, k - 1, n)]
    IN  Append(open, Front(open))

----------------------------------------------------------------------------
(* The constructors of Rectangle and Circle (shapes.hpp) *)

(* Mutant: a rectangle without width or height is rejected *)
RectangleThrows_Degenerate(min_x, min_y, max_x, max_y) ==
    min_x >= max_x \/ min_y >= max_y

(* if (min_x > max_x || min_y > max_y) throw std::invalid_argument *)
RectangleThrows(min_x, min_y, max_x, max_y) == min_x > max_x \/ min_y > max_y

(* if (radius <= 0.) throw std::invalid_argument *)
CircleThrows(r) == r <= 0

----------------------------------------------------------------------------
(* line_segments_intersect_2d and what it calls (projections.hpp,
   utilities.hpp, vector.hpp).  The points have whole coordinates (q = 1);
   keps is geometry::kEpsilon in the unit of the quantity compared *)

(* Vector3D{p.GetX(), p.GetY(), p.GetZ()} *)
to_vector(p) == [x |-> p.x, y |-> p.y, z |-> p.z]

(* Vector3D::operator- *)
Minus(v1, v2) == [x |-> v1.x - v2.x, y |-> v1.y - v2.y, z |-> v1.z - v2.z]

cross_product(v1, v2) ==
    [x |-> v1.y * v2.z - v1.z * v2.y,
     y |-> v1.z * v2.x - v1.x * v2.z,
     z |-> v1.x * v2.y - v1.y * v2.x]

dot_product(v1, v2) == v1.x * v2.x + v1.y * v2.y + v1.z * v2.z

(* magnitude(v) > tolerance, for tolerance >= 0: sqrt(v.v) > tolerance *)
MagnitudeExceeds(v, tolerance) == dot_product(v, v) > tolerance * tolerance

(* The z component of cross(b - a, c - a) *)
signed_area_2D(a, b, c) ==
    cross_product(Minus(to_vector(b), to_vector(a)),
                  Minus(to_vector(c), to_vector(a))).z

sign(value, tolerance) ==
    IF value > tolerance THEN 1 ELSE IF value < -tolerance THEN -1 ELSE 0

axis_aligned_bounding_box(a, b, pad) ==
    [min_x |-> Min2(a.x, b.x) - pad, max_x |-> Max2(a.x, b.x) + pad,
     min_y |-> Min2(a.y, b.y) - pad, max_y |-> Max2(a.y, b.y) + pad,
     min_z |-> Min2(a.z, b.z) - pad, max_z |-> Max2(a.z, b.z) + pad]

contains_point_3d(box, point) ==
    /\ point.x >= box.min_x /\ point.x <= box.max_x
    /\ point.y >= box.min_y /\ point.y <= box.max_y
    /\ point.z >= box.min_z /\ point.z <= box.max_z

on_line_segment_3d(a, b, point, keps) ==
    LET ab == Minus(to_vector(b), to_vector(a))
        ap == Minus(to_vector(point), to_vector(a))
    IN  IF MagnitudeExceeds(cross_product(ab, ap), keps) THEN FALSE
        ELSE contains_point_3d(axis_aligned_bounding_box(a, b, keps), point)

line_segments_intersect_2d(a, b, c, d, keps) ==
    LET ab_c == sign(signed_area_2D(a, b, c), keps)
        ab_d == sign(signed_area_2D(a, b, d), keps)
        cd_a == sign(signed_area_2D(c, d, a), keps)
        cd_b == sign(signed_area_2D(c, d, b), keps)
    IN  IF ab_c * ab_d < 0 /\ cd_a * cd_b < 0 THEN TRUE
        ELSE IF ab_c = 0 /\ on_line_segment_3d(a, b, c, keps) THEN TRUE
        ELSE IF ab_d = 0 /\ on_line_segment_3d(a, b, d, keps) THEN TRUE
        ELSE IF cd_a = 0 /\ on_line_segment_3d(c, d, a, keps) THEN TRUE
        ELSE IF cd_b = 0 /\ on_line_segment_3d(c, d, b, keps) THEN TRUE
        ELSE FALSE

----------------------------------------------------------------------------
(* The air hockey table (air_hockey_game.hpp, air_hockey_game.cpp).

   A double argument of the constructor is [finite, value]: a whole number,
   or a NaN or infinity.  Positions are exact points x/q, y/q.  A velocity
   is [finite, x, y]: a whole-number direction, standing for the unit
   vector along it (every time below is measured in the matching unit, which
   cancels in position + velocity * time), or NaN components.  A time is
   [finite, n, d]: n/d with d > 0, or infinity.  kEpsilon is smaller than
   every nonzero quantity compared with it *)

hits_size == 10

Finite(n) == [finite |-> TRUE, value |-> n]

NonFinite == [finite |-> FALSE, value |-> 0]

NoAngle == [finite |-> TRUE, x |-> 1, y |-> 0]

NoVelocity == [finite |-> TRUE, x |-> 0, y |-> 0]

Infinity == [finite |-> FALSE, n |-> 0, d |-> 1]

AirHockeyThrows_ZeroAllowed(length, width) ==
    IF ~length.finite \/ ~width.finite THEN TRUE
    ELSE length.value < 0 \/ width.value < 0

(* The two checks of the constructor *)
AirHockeyThrows(length, width) ==
    IF ~length.finite \/ ~width.finite THEN TRUE
    ELSE length.value <= 0 \/ width.value <= 0

(* The lambda in_bounds on the point's x and y *)
in_bounds(p, length, width) ==
    p.x >= 0 /\ p.x <= length * p.q /\ p.y >= 0 /\ p.y <= width * p.q

(* The angle [finite, x, y] is atan2(y, x) in degrees, or a NaN or infinity;
   cos and sin of a non-finite angle are NaN *)
DirectionVector(a) ==
    IF ~a.finite THEN [finite |-> FALSE, x |-> 0, y |-> 0]
    ELSE LET g == Gcd(Abs(a.x), Abs(a.y))
         IN  [finite |-> TRUE, x |-> a.x \div g, y |-> a.y \div g]

(* std::clamp *)
Clamp(v, lo, hi) == IF v < lo THEN lo ELSE IF hi < v THEN hi ELSE v

ClampToTable_Unclamped(p, length, width) == RationalPoint(p.x, p.y, p.q)

(* p is the point (p.x/p.q, p.y/p.q), not yet in lowest terms *)
ClampToTable(p, length, width) ==
    RationalPoint(Clamp(p.x, 0, length * p.q), Clamp(p.y, 0, width * p.q), p.q)

(* The position on the axis is pn/pd, the velocity component is v, or NaN
   when finite is FALSE: every comparison with a NaN is false, so the
   function goes on to line 135 and returns infinity *)
TimeToNextWall(pn, pd, finite, v, min_bound, max_bound) ==
    IF ~finite THEN Infinity
    ELSE IF Abs(v) <= 0 THEN Infinity
    ELSE LET target == IF v > 0 THEN max_bound ELSE min_bound
             n == (target * pd - pn) * (IF v > 0 THEN 1 ELSE -1)
         IN  IF n > 0 THEN [finite |-> TRUE, n |-> n, d |-> pd * Abs(v)]
             ELSE Infinity

(* s < t *)
TimeLess(s, t) == s.finite /\ (~t.finite \/ s.n * t.d < t.n * s.d)

(* std::min(s, t) *)
MinTime(s, t) == IF TimeLess(t, s) THEN t ELSE s

(* std::abs(s - t) <= 10. * kEpsilon, for a finite t *)
TimeWithin(s, t) == s.finite /\ s.n * t.d = t.n * s.d

(* position + velocity * t, for finite velocity and t *)
Advance(p, v, t) ==
    [x |-> p.x * t.d + v.x * t.n * p.q, y |-> p.y * t.d + v.y * t.n * p.q,
     q |-> p.q * t.d]

(* std::abs(c - wall) <= 10. * kEpsilon for the coordinate c = cn/cd *)
OnWall(cn, cd, wall) == cn = wall * cd

Reflect_KeepsX(v, flip_x, flip_y) ==
    [v EXCEPT !.y = IF flip_y THEN -v.y ELSE v.y]

(* velocity.x = -velocity.x and velocity.y = -velocity.y where asked *)
Reflect(v, flip_x, flip_y) ==
    [v EXCEPT !.x = IF flip_x THEN -v.x ELSE v.x,
              !.y = IF flip_y THEN -v.y ELSE v.y]

(* The velocity after the contact at p reached at time t (lines 73-100) *)
Reflected(v, p, tx, ty, t, length, width) ==
    LET hit_vertical == TimeWithin(tx, t)
        hit_horizontal == TimeWithin(ty, t)
        on_left_or_right == OnWall(p.x, p.q, 0) \/ OnWall(p.x, p.q, length)
        on_bottom_or_top == OnWall(p.y, p.q, 0) \/ OnWall(p.y, p.q, width)
    IN  IF ~hit_vertical /\ ~hit_horizontal
        THEN Reflect(v, on_left_or_right, on_bottom_or_top)
        ELSE Reflect(v, hit_vertical, hit_horizontal)

----------------------------------------------------------------------------
(* Inputs *)

(* XY positions: the origin, a position within one unit of it, and two
   positions MaxXY away along the axes *)
XYPoints == {<<0, 0>>, <<1, 0>>, <<MaxXY, 0>>, <<0, MaxXY>>}

ZValues == 0..MaxZ

PlaneHeights == {MaxZ \div 2, (MaxZ \div 2) + 1}

Tolerances == 0..MaxEps

MeshVertices == {Point(xy[1], xy[2], z) : xy \in XYPoints, z \in ZValues}

(* Endpoints given to the stitcher: the origin, a point one unit from it and
   a point MaxXY from it *)
PlanarPoints == {Point(0, 0, 0), Point(1, 0, 0), Point(MaxXY, 0, 0)}

SegmentInputs == {Segment2D(p, r) : p \in PlanarPoints, r \in PlanarPoints}

SeqsUpTo(S, n) == UNION {[1..k -> S] : k \in 0..n}

Permutations1(n) == {f \in [1..n -> 1..n] : \A i, j \in 1..n : i # j => f[i] # f[j]}

(* The corners of the square of side MaxXY *)
SquareCorners == {Point(0, 0, 0), Point(MaxXY, 0, 0), Point(MaxXY, MaxXY, 0),
                  Point(0, MaxXY, 0)}

(* Closed loops through n distinct corners, n = 3 or 4: v[1] -> v[2] -> ... -> v[n] -> v[1] *)
LoopVertexSeqs ==
    UNION {{v \in [1..n -> SquareCorners] : \A i, j \in 1..n : i # j => v[i] # v[j]}
           : n \in {3, 4}}

(* The k-th side of the loop v *)
LoopSide(v, k) == Segment2D(v[k], v[(k % Len(v)) + 1])

Reversed(seg) == Segment2D(seg.end_point, seg.start_point)

(* The sides of loop v, in the order perm and with the sides of flip reversed *)
LoopInput(v, perm, flip) ==
    [k \in 1..Len(v) |->
        IF flip[k] THEN Reversed(LoopSide(v, perm[k])) ELSE LoopSide(v, perm[k])]

----------------------------------------------------------------------------
(* States of the parts of the model that a specification does not use *)

IdleTri ==
    /\ triangle = Triangle(NoPoint, NoPoint, NoPoint)
    /\ plane_height = 0
    /\ intersections = <<>>
    /\ found = FALSE
    /\ output_segment = NoSegment

IdleStitch ==
    /\ input_segments = <<>>
    /\ line_segments = <<>>
    /\ line_ids = <<>>
    /\ path = <<>>
    /\ polylines = <<>>
    /\ path_ids = {}
    /\ polyline_ids = <<>>

IdleSlice ==
    /\ triangles = <<>>
    /\ layer_height = 0
    /\ layers = <<>>

IdleStl ==
    /\ stl_input = <<>>
    /\ stl_triangles = <<>>

IdleGcode ==
    /\ gcode_paths = <<>>
    /\ gcode_layers = <<>>
    /\ precision = 0
    /\ gcode_out = <<>>

IdlePerimeters ==
    /\ rectangle = Rectangle(0, 0, 0, 0)
    /\ circle = Circle(0, 0, 1)
    /\ spacing = 0
    /\ num_segments = 0
    /\ bounds = Rectangle(0, 0, 0, 0)
    /\ radius = 0
    /\ perimeter_paths = <<>>

IdleShapes ==
    /\ shape_args = <<>>
    /\ shape_thrown = "none"
    /\ shape_object = <<>>

IdleIntersect ==
    /\ intersect_args = <<>>
    /\ intersect_result = FALSE

IdleHockey ==
    /\ hockey_args = <<>>
    /\ hockey_thrown = "none"
    /\ length_ = 0
    /\ width_ = 0
    /\ initial_position = NoPoint
    /\ angle = NoAngle
    /\ position = NoPoint
    /\ velocity = NoVelocity
    /\ hits = <<>>
    /\ hit_index = 0

IdleRest == IdleShapes /\ IdleIntersect /\ IdleHockey

IdleExt == IdleStl /\ IdleGcode /\ IdlePerimeters /\ IdleRest

IdleCore ==
    /\ epsilon = 0
    /\ IdleTri
    /\ IdleStitch
    /\ IdleSlice

----------------------------------------------------------------------------
(* One call of triangle_plane_segment *)

InitTri ==
    /\ pc = "tri_call"
    /\ triangle \in {Triangle(a, b, c) : a \in MeshVertices, b \in MeshVertices,
                                          c \in MeshVertices}
    /\ plane_height \in PlaneHeights
    /\ epsilon \in Tolerances
    /\ intersections = <<>>
    /\ found = FALSE
    /\ output_segment = NoSegment
    /\ IdleStitch
    /\ IdleSlice
    /\ IdleExt

TriCall ==
    /\ pc = "tri_call"
    /\ LET res == triangle_plane_segment(triangle, plane_height, output_segment,
                                         epsilon)
       IN  /\ found' = res.found
           /\ output_segment' = res.segment
           /\ intersections' = res.intersections
    /\ pc' = "tri_done"
    /\ UNCHANGED <<triangle, plane_height, epsilon, stitchVars, sliceVars,
                   extVars>>

NextTri == TriCall

SpecTri == InitTri /\ [][NextTri]_vars

----------------------------------------------------------------------------
(* One call of stitch_segments_into_paths, a step per loop iteration *)

StitchStart(segs) ==
    /\ pc = "stitch_loop"
    /\ input_segments = segs
    /\ line_segments = segs
    /\ line_ids = [k \in 1..Len(segs) |-> k]
    /\ path = <<>>
    /\ polylines = <<>>
    /\ path_ids = {}
    /\ polyline_ids = <<>>
    /\ IdleTri
    /\ IdleSlice
    /\ IdleExt

(* Arbitrary segments *)
InitStitch ==
    /\ epsilon \in Tolerances
    /\ \E segs \in SeqsUpTo(SegmentInputs, MaxSegs) : StitchStart(segs)

(* The sides of one closed loop, in any order and orientation; the corners
   are further apart than the tolerance *)
InitLoop ==
    /\ epsilon \in {e \in Tolerances : e < MaxXY}
    /\ \E v \in LoopVertexSeqs :
         \E perm \in Permutations1(Len(v)) :
           \E flip \in [1..Len(v) -> BOOLEAN] :
              StitchStart(LoopInput(v, perm, flip))

(* Start a new path from the last segment of the pool *)
StitchSeed ==
    /\ pc = "stitch_loop"
    /\ line_segments # <<>>
    /\ path' = <<Back(line_segments).start_point, Back(line_segments).end_point>>
    /\ path_ids' = {Back(line_ids)}
    /\ line_segments' = Erase(line_segments, Len(line_segments))
    /\ line_ids' = Erase(line_ids, Len(line_ids))
    /\ pc' = "stitch_scan"
    /\ UNCHANGED <<input_segments, polylines, polyline_ids, epsilon, triVars,
                   sliceVars, extVars>>

(* One scan of the pool that finds a match: attach it, erase it, rescan *)
StitchAttach ==
    /\ pc = "stitch_scan"
    /\ LET i == FirstMatch(path, line_segments, epsilon)
       IN  /\ i # 0
           /\ path' = AttachSegment(path, line_segments[i], epsilon)
           /\ path_ids' = path_ids \cup {line_ids[i]}
           /\ line_segments' = Erase(line_segments, i)
           /\ line_ids' = Erase(line_ids, i)
    /\ UNCHANGED <<pc, input_segments, polylines, polyline_ids, epsilon,
                   triVars, sliceVars, extVars>>

(* One scan of the pool that finds no match: close the path and emit it *)
StitchEmit ==
    /\ pc = "stitch_scan"
    /\ FirstMatch(path, line_segments, epsilon) = 0
    /\ polylines' = Append(polylines, ClosePath(path, epsilon))
    /\ polyline_ids' = Append(polyline_ids, path_ids)
    /\ path' = <<>>
    /\ path_ids' = {}
    /\ pc' = "stitch_loop"
    /\ UNCHANGED <<input_segments, line_segments, line_ids, epsilon, triVars,
                   sliceVars, extVars>>

(* The pool is empty: return polylines *)
StitchReturn ==
    /\ pc = "stitch_loop"
    /\ line_segments = <<>>
    /\ pc' = "stitch_done"
    /\ UNCHANGED <<epsilon, stitchVars, triVars, sliceVars, extVars>>

NextStitch == StitchSeed \/ StitchAttach \/ StitchEmit \/ StitchReturn

SpecStitch == InitStitch /\ [][NextStitch]_vars

(* Segments of non-zero length between the corners of the square *)
CleanSegments ==
    {Segment2D(p, r) : p \in SquareCorners, r \in SquareCorners} \
        {Segment2D(p, p) : p \in SquareCorners}

(* No corner is an endpoint of more than two of the segments *)
IsClean(segs) ==
    \A p \in SquareCorners :
        Cardinality({k \in 1..Len(segs) :
                        p \in {segs[k].start_point, segs[k].end_point}}) <= 2

(* Clean input: up to MaxCleanSegs segments in any order and orientation, at
   most two at a corner; the corners are further apart than the tolerance *)
InitClean ==
    /\ epsilon \in {e \in Tolerances : e < MaxXY}
    /\ \E segs \in SeqsUpTo(CleanSegments, MaxCleanSegs) :
          IsClean(segs) /\ StitchStart(segs)

SpecClean == InitClean /\ [][NextStitch]_vars

SpecLoop == InitLoop /\ [][NextStitch]_vars

----------------------------------------------------------------------------
(* One call of slice_triangle_mesh_layers *)

(* XY position of the k-th vertex of a triangle strip of cell size MaxXY:
   (0,0), (0,W), (W,0), (W,W), (2W,0), ... *)
StripXY(k) ==
    IF k % 2 = 1 THEN <<((k - 1) \div 2) * MaxXY, 0>>
    ELSE <<((k \div 2) - 1) * MaxXY, MaxXY>>

StripVertex(zs, k) == Point(StripXY(k)[1], StripXY(k)[2], zs[k])

(* The strip of n triangles over vertices of heights zs: triangle k has the
   vertices k, k + 1, k + 2 *)
StripMesh(zs, n) ==
    [k \in 1..n |-> Triangle(StripVertex(zs, k), StripVertex(zs, k + 1),
                             StripVertex(zs, k + 2))]

Meshes ==
    {<<>>} \cup UNION {{StripMesh(zs, n) : zs \in [1..(n + 2) -> ZValues]}
                       : n \in 1..MaxTris}

LayerHeights == (-1)..MaxDz

(* epsilon holds geometry::kEpsilon in grid units: 0 when the grid unit is
   far larger than 1e-9, 1 when it is 1e-9 *)
InitSlice ==
    /\ pc = "slice_call"
    /\ triangles \in Meshes
    /\ layer_height \in LayerHeights
    /\ epsilon \in Tolerances
    /\ layers = <<>>
    /\ IdleTri
    /\ IdleStitch
    /\ IdleExt

Slice ==
    /\ pc = "slice_call"
    /\ layers' = slice_triangle_mesh_layers(triangles, layer_height, epsilon)
    /\ pc' = "slice_done"
    /\ UNCHANGED <<triangles, layer_height, epsilon, triVars, stitchVars,
                   extVars>>

NextSlice == Slice

SpecSlice == InitSlice /\ [][NextSlice]_vars


----------------------------------------------------------------------------
(* One call of parse_ascii_stl *)

(* Pieces of STL text: two vertex records, a vertex record cut short, a
   keyword and a number on its own *)
StlChunks == {<<"vertex", "0", "1", "-2">>, <<"vertex", "1.0", "0", "0">>,
              <<"vertex", "-2">>, <<"endloop">>, <<"1">>}

RECURSIVE Concat(_)
Concat(seqs) == IF seqs = <<>> THEN <<>> ELSE Head(seqs) \o Concat(Tail(seqs))

(* Streams of at most MaxChunks pieces *)
StlInputs == {Concat(c) : c \in SeqsUpTo(StlChunks, MaxChunks)}

InitStl ==
    /\ pc = "stl_call"
    /\ stl_input \in StlInputs
    /\ stl_triangles = <<>>
    /\ IdleCore
    /\ IdleRest
    /\ IdleGcode
    /\ IdlePerimeters

StlParse ==
    /\ pc = "stl_call"
    /\ stl_triangles' = parse_ascii_stl(stl_input)
    /\ pc' = "stl_done"
    /\ UNCHANGED <<stl_input, epsilon, triVars, stitchVars, sliceVars, restVars,
                   gcodeVars, perimeterVars>>

NextStl == StlParse

SpecStl == InitStl /\ [][NextStl]_vars

----------------------------------------------------------------------------
(* One call of format_toolpath_gcode, on paths and on layers *)

(* Points of a toolpath: the origin and the point (3/2, -1/2) *)
ToolPoints == {Point(0, 0, 0), RationalPoint(3, -1, 2)}

ToolPaths == SeqsUpTo(ToolPoints, MaxPts)

Precisions == (-1)..MaxPrec

(* What a layer holds: no path, a path of one point, a path of two points,
   and two paths around an empty one *)
LayerPathLists ==
    {<<>>,
     << <<Point(0, 0, 0)>> >>,
     << <<RationalPoint(3, -1, 2), Point(0, 0, 0)>> >>,
     << <<Point(0, 0, 0), RationalPoint(3, -1, 2)>>, <<>>,
        <<RationalPoint(3, -1, 2)>> >>}

ToolLayers == {Layer(z, paths) : z \in 1..2, paths \in LayerPathLists}

InitGcodePaths ==
    /\ pc = "gcode_paths_call"
    /\ gcode_paths \in SeqsUpTo(ToolPaths, MaxPaths)
    /\ gcode_layers = <<>>
    /\ precision \in Precisions
    /\ gcode_out = <<>>
    /\ IdleCore
    /\ IdleRest
    /\ IdleStl
    /\ IdlePerimeters

GcodeFormatPaths ==
    /\ pc = "gcode_paths_call"
    /\ gcode_out' = format_toolpath_gcode(gcode_paths, precision)
    /\ pc' = "gcode_paths_done"
    /\ UNCHANGED <<gcode_paths, gcode_layers, precision, epsilon, triVars,
                   stitchVars, sliceVars, restVars, stlVars, perimeterVars>>

NextGcodePaths == GcodeFormatPaths

SpecGcodePaths == InitGcodePaths /\ [][NextGcodePaths]_vars

InitGcodeLayers ==
    /\ pc = "gcode_layers_call"
    /\ gcode_paths = <<>>
    /\ gcode_layers \in SeqsUpTo(ToolLayers, MaxLayers)
    /\ precision \in Precisions
    /\ gcode_out = <<>>
    /\ IdleCore
    /\ IdleRest
    /\ IdleStl
    /\ IdlePerimeters

GcodeFormatLayers ==
    /\ pc = "gcode_layers_call"
    /\ gcode_out' = format_toolpath_gcode_layers(gcode_layers, precision)
    /\ pc' = "gcode_layers_done"
    /\ UNCHANGED <<gcode_paths, gcode_layers, precision, epsilon, triVars,
                   stitchVars, sliceVars, restVars, stlVars, perimeterVars>>

NextGcodeLayers == GcodeFormatLayers

SpecGcodeLayers == InitGcodeLayers /\ [][NextGcodeLayers]_vars

----------------------------------------------------------------------------
(* One call of generate_rectangle_perimeters or generate_circle_perimeters,
   a step per loop iteration *)

Spacings == (-1)..MaxSpacing

Rectangles ==
    {Rectangle(x, y, x + w, y + h) : x \in {0}, y \in {-1, 0},
                                      w \in 0..MaxSide, h \in 0..MaxSide}

Circles == {Circle(x, 0, r) : x \in {0, 1}, r \in 1..MaxRadius}

InitRectangle ==
    /\ pc = "rectangle_call"
    /\ rectangle \in Rectangles
    /\ spacing \in Spacings
    /\ circle = Circle(0, 0, 1)
    /\ num_segments = 0
    /\ bounds = Rectangle(0, 0, 0, 0)
    /\ radius = 0
    /\ perimeter_paths = <<>>

InitCircle ==
    /\ pc = "circle_call"
    /\ circle \in Circles
    /\ spacing \in Spacings
    /\ num_segments \in 0..MaxSegments
    /\ rectangle = Rectangle(0, 0, 0, 0)
    /\ bounds = Rectangle(0, 0, 0, 0)
    /\ radius = 0
    /\ perimeter_paths = <<>>

InitPerimeters ==
    /\ InitRectangle \/ InitCircle
    /\ IdleCore
    /\ IdleRest
    /\ IdleStl
    /\ IdleGcode

(* Early return if spacing is not positive *)
RectangleReject ==
    /\ pc = "rectangle_call"
    /\ RectangleParametersInvalid(spacing)
    /\ pc' = "rectangle_done"
    /\ UNCHANGED <<perimeterVars, epsilon, triVars, stitchVars, sliceVars, restVars,
                   stlVars, gcodeVars>>

(* Get the rectangle bounds *)
RectangleBegin ==
    /\ pc = "rectangle_call"
    /\ ~RectangleParametersInvalid(spacing)
    /\ bounds' = rectangle
    /\ pc' = "rectangle_loop"
    /\ UNCHANGED <<rectangle, circle, spacing, num_segments, radius,
                   perimeter_paths, epsilon, triVars, stitchVars, sliceVars, restVars,
                   stlVars, gcodeVars>>

(* One iteration: emit the loop and move inward *)
RectangleEmit ==
    /\ pc = "rectangle_loop"
    /\ RectangleLeft(bounds)
    /\ perimeter_paths' = Append(perimeter_paths, RectangleLoop(bounds))
    /\ bounds' = Inward(bounds, spacing)
    /\ UNCHANGED <<pc, rectangle, circle, spacing, num_segments, radius, epsilon,
                   triVars, stitchVars, sliceVars, restVars, stlVars, gcodeVars>>

RectangleReturn ==
    /\ pc = "rectangle_loop"
    /\ ~RectangleLeft(bounds)
    /\ pc' = "rectangle_done"
    /\ UNCHANGED <<perimeterVars, epsilon, triVars, stitchVars, sliceVars, restVars,
                   stlVars, gcodeVars>>

(* Early return if spacing is not positive or num_segments is less than 3 *)
CircleReject ==
    /\ pc = "circle_call"
    /\ CircleParametersInvalid(spacing, num_segments)
    /\ pc' = "circle_done"
    /\ UNCHANGED <<perimeterVars, epsilon, triVars, stitchVars, sliceVars, restVars,
                   stlVars, gcodeVars>>

CircleBegin ==
    /\ pc = "circle_call"
    /\ ~CircleParametersInvalid(spacing, num_segments)
    /\ radius' = circle.radius
    /\ pc' = "circle_loop"
    /\ UNCHANGED <<rectangle, circle, spacing, num_segments, bounds,
                   perimeter_paths, epsilon, triVars, stitchVars, sliceVars, restVars,
                   stlVars, gcodeVars>>

(* One iteration: emit the loop and reduce the radius *)
CircleEmit ==
    /\ pc = "circle_loop"
    /\ radius > 0
    /\ perimeter_paths' = Append(perimeter_paths,
                                 CircleLoop(circle, radius, num_segments))
    /\ radius' = radius - spacing
    /\ UNCHANGED <<pc, rectangle, circle, spacing, num_segments, bounds, epsilon,
                   triVars, stitchVars, sliceVars, restVars, stlVars, gcodeVars>>

CircleReturn ==
    /\ pc = "circle_loop"
    /\ ~(radius > 0)
    /\ pc' = "circle_done"
    /\ UNCHANGED <<perimeterVars, epsilon, triVars, stitchVars, sliceVars, restVars,
                   stlVars, gcodeVars>>

NextRectangle ==
    RectangleReject \/ RectangleBegin \/ RectangleEmit \/ RectangleReturn

NextCircle == CircleReject \/ CircleBegin \/ CircleEmit \/ CircleReturn

NextPerimeters == NextRectangle \/ NextCircle

SpecPerimeters == InitPerimeters /\ [][NextPerimeters]_vars

----------------------------------------------------------------------------
(* One construction of a Rectangle or of a Circle *)

Arguments == (-1)..MaxArg

(* The variables of the functions modelled above *)
olderVars == <<epsilon, triVars, stitchVars, sliceVars, stlVars, gcodeVars,
               perimeterVars>>

IdleOlder == IdleCore /\ IdleStl /\ IdleGcode /\ IdlePerimeters

InitShapes ==
    /\ \/ pc = "rectangle_construct" /\ shape_args \in [1..4 -> Arguments]
       \/ pc = "circle_construct" /\ shape_args \in [1..3 -> Arguments]
    /\ shape_thrown = "none"
    /\ shape_object = <<>>
    /\ IdleOlder
    /\ IdleIntersect
    /\ IdleHockey

(* Rectangle(min_x_in, min_y_in, max_x_in, max_y_in): the members are
   initialized, then the check throws or the object stands *)
RectangleConstruct ==
    /\ pc = "rectangle_construct"
    /\ IF RectangleThrows(shape_args[1], shape_args[2], shape_args[3],
                          shape_args[4])
       THEN shape_thrown' = "invalid_argument" /\ shape_object' = <<>>
       ELSE /\ shape_thrown' = "none"
            /\ shape_object' = Rectangle(shape_args[1], shape_args[2],
                                         shape_args[3], shape_args[4])
    /\ pc' = "rectangle_constructed"
    /\ UNCHANGED <<shape_args, olderVars, intersectVars, hockeyVars>>

(* Circle(center_x_in, center_y_in, radius_in) *)
CircleConstruct ==
    /\ pc = "circle_construct"
    /\ IF CircleThrows(shape_args[3])
       THEN shape_thrown' = "invalid_argument" /\ shape_object' = <<>>
       ELSE /\ shape_thrown' = "none"
            /\ shape_object' = Circle(shape_args[1], shape_args[2], shape_args[3])
    /\ pc' = "circle_constructed"
    /\ UNCHANGED <<shape_args, olderVars, intersectVars, hockeyVars>>

NextShapes == RectangleConstruct \/ CircleConstruct

SpecShapes == InitShapes /\ [][NextShapes]_vars

----------------------------------------------------------------------------
(* One call of line_segments_intersect_2d *)

(* Endpoints: x in 0..MaxXY + 1, y in 0..1, z in 0..1 *)
EndPoints ==
    {Point(x, y, z) : x \in 0..(MaxXY + 1), y \in 0..1, z \in 0..1}

(* epsilon = 0: kEpsilon is less than one unit of every quantity compared *)
InitIntersect ==
    /\ pc = "intersect_call"
    /\ intersect_args \in [1..4 -> EndPoints]
    /\ intersect_result = FALSE
    /\ IdleOlder
    /\ IdleShapes
    /\ IdleHockey

Intersect ==
    /\ pc = "intersect_call"
    /\ intersect_result' =
          line_segments_intersect_2d(intersect_args[1], intersect_args[2],
                                     intersect_args[3], intersect_args[4],
                                     epsilon)
    /\ pc' = "intersect_done"
    /\ UNCHANGED <<intersect_args, olderVars, shapeVars, hockeyVars>>

NextIntersect == Intersect

SpecIntersect == InitIntersect /\ [][NextIntersect]_vars

----------------------------------------------------------------------------
(* AirHockey: the constructor, then one call of puck_hit_locations *)

MaxTable == 2       \* largest length and width of the table
MaxSlope == 2       \* largest component of the direction of an angle

Doubles == {Finite(n) : n \in (-1)..MaxTable} \cup {NonFinite}

(* Initial positions on the half-unit grid from -1/2 to MaxTable + 1/2, at
   z = 0 or z = 1/q *)
StartPoints ==
    {[RationalPoint(xn, yn, 2) EXCEPT !.z = z] :
        xn \in (-1)..(2 * MaxTable + 1), yn \in (-1)..(2 * MaxTable + 1),
        z \in 0..1}

Angles ==
    ({[finite |-> TRUE, x |-> vx, y |-> vy] :
        vx \in (-MaxSlope)..MaxSlope, vy \in (-MaxSlope)..MaxSlope}
      \ {[finite |-> TRUE, x |-> 0, y |-> 0]})
    \cup {[finite |-> FALSE, x |-> 0, y |-> 0]}

otherVars == <<olderVars, shapeVars, intersectVars>>

InitHockey ==
    /\ pc = "hockey_construct"
    /\ hockey_args \in [1..2 -> Doubles]
    /\ hockey_thrown = "none"
    /\ length_ = 0
    /\ width_ = 0
    /\ initial_position = NoPoint
    /\ angle = NoAngle
    /\ position = NoPoint
    /\ velocity = NoVelocity
    /\ hits = <<>>
    /\ hit_index = 0
    /\ IdleOlder
    /\ IdleShapes
    /\ IdleIntersect

(* AirHockey::AirHockey *)
HockeyConstruct ==
    /\ pc = "hockey_construct"
    /\ IF AirHockeyThrows(hockey_args[1], hockey_args[2])
       THEN /\ hockey_thrown' = "invalid_argument"
            /\ pc' = "hockey_rejected"
            /\ UNCHANGED <<length_, width_>>
       ELSE /\ length_' = hockey_args[1].value
            /\ width_' = hockey_args[2].value
            /\ pc' = "hockey_ready"
            /\ UNCHANGED hockey_thrown
    /\ UNCHANGED <<hockey_args, initial_position, angle, position, velocity,
                   hits, hit_index, otherVars>>

(* puck_hit_locations up to the loop: lines 32-54 *)
PuckCall ==
    /\ pc = "hockey_ready"
    /\ \E p \in StartPoints, a \in Angles :
          /\ initial_position' = p
          /\ angle' = a
          /\ IF ~in_bounds(p, length_, width_)
             THEN /\ hockey_thrown' = "out_of_range"
                  /\ pc' = "puck_thrown"
                  /\ UNCHANGED <<position, velocity, hits, hit_index>>
             ELSE /\ hits' = [k \in 1..hits_size |-> NoPoint]
                  /\ position' = RationalPoint(p.x, p.y, p.q)
                  /\ velocity' = DirectionVector(a)
                  /\ hit_index' = 0
                  /\ pc' = "puck_loop"
                  /\ UNCHANGED hockey_thrown
    /\ UNCHANGED <<hockey_args, length_, width_, otherVars>>

(* One iteration of the loop: lines 56-101 *)
PuckStep ==
    /\ pc = "puck_loop"
    /\ hit_index < hits_size
    /\ LET time_to_next_x_wall ==
              TimeToNextWall(position.x, position.q, velocity.finite,
                             velocity.x, 0, length_)
           time_to_next_y_wall ==
              TimeToNextWall(position.y, position.q, velocity.finite,
                             velocity.y, 0, width_)
           time_to_next_wall == MinTime(time_to_next_x_wall, time_to_next_y_wall)
           next == ClampToTable(Advance(position, velocity, time_to_next_wall),
                                length_, width_)
       IN  IF ~time_to_next_wall.finite
           THEN /\ pc' = "puck_done"
                /\ UNCHANGED <<position, velocity, hits, hit_index>>
           ELSE /\ position' = next
                /\ hits' = [hits EXCEPT ![hit_index + 1] = next]
                /\ velocity' = Reflected(velocity, next, time_to_next_x_wall,
                                         time_to_next_y_wall, time_to_next_wall,
                                         length_, width_)
                /\ hit_index' = hit_index + 1
                /\ pc' = "puck_loop"
    /\ UNCHANGED <<hockey_args, hockey_thrown, length_, width_,
                   initial_position, angle, otherVars>>

(* The loop ends: return hits *)
PuckReturn ==
    /\ pc = "puck_loop"
    /\ hit_index >= hits_size
    /\ pc' = "puck_done"
    /\ UNCHANGED <<hockeyVars, otherVars>>

NextHockey ==
    \/ HockeyConstruct
    \/ PuckCall
    \/ PuckStep
    \/ PuckReturn

SpecHockey == InitHockey /\ [][NextHockey]_vars

----------------------------------------------------------------------------
(* Claims about stitch_segments_into_paths on the sides of one closed loop
   (specification SpecLoop) *)

(* C1: the sides of one closed loop, in any input order and orientation,
   stitch into exactly one path, that path is closed, and it has as many
   points as there are sides plus one (5 points for a square) *)
C1_LoopOnePathOfSidesPlusOne ==
    pc = "stitch_done" =>
        /\ Len(polylines) = 1
        /\ Front(polylines[1]) = Back(polylines[1])
        /\ Len(polylines[1]) = Len(input_segments) + 1

(* What the code returns for such a loop: one closed path in which the start
   point comes twice at the end, sides + 2 points (6 for a square) *)
LoopPathRepeatsStartTwice ==
    pc = "stitch_done" =>
        /\ Len(polylines) = 1
        /\ Len(polylines[1]) = Len(input_segments) + 2
        /\ Back(polylines[1]) = Front(polylines[1])
        /\ polylines[1][Len(polylines[1]) - 1] = Front(polylines[1])

----------------------------------------------------------------------------
(* Claims about triangle_plane_segment (specification SpecTri) *)

(* The edges a->b, b->c, c->a as pairs of vertices *)
TriEdges == {<<triangle.a, triangle.b>>, <<triangle.b, triangle.c>>,
             <<triangle.c, triangle.a>>}

EdgeIndices == {<<1, 2>>, <<2, 3>>, <<3, 1>>}

OnPlane(v) == Abs(v.z - plane_height) <= epsilon

Above(v) == v.z - plane_height > epsilon

Below(v) == v.z - plane_height < -epsilon

(* The edge crosses the plane strictly between its endpoints *)
CrossesStrictly(v, w) == (Above(v) /\ Below(w)) \/ (Below(v) /\ Above(w))

(* The planar point pt lies on the XY projection of the closed edge [v, w] *)
OnEdgeXY(pt, v, w) ==
    /\ (w.x - v.x) * (pt.y - v.y * pt.q) = (w.y - v.y) * (pt.x - v.x * pt.q)
    /\ Min2(v.x, w.x) * pt.q <= pt.x /\ pt.x <= Max2(v.x, w.x) * pt.q
    /\ Min2(v.y, w.y) * pt.q <= pt.y /\ pt.y <= Max2(v.y, w.y) * pt.q

OnSomeEdgeXY(pt) == \E e \in TriEdges : OnEdgeXY(pt, e[1], e[2])

(* The XY position of v is within epsilon of the point of the line through
   p0 and p1 that has height plane_height (p0.z # p1.z) *)
NearPlanePointOfLine(v, p0, p1) ==
    LET dz == p1.z - p0.z
        k == plane_height - p0.z
    IN  /\ Abs(p0.x * dz + k * (p1.x - p0.x) - v.x * dz) <= epsilon * Abs(dz)
        /\ Abs(p0.y * dz + k * (p1.y - p0.y) - v.y * dz) <= epsilon * Abs(dz)

ExactlyOneEdgeCrosses ==
    Cardinality({e \in EdgeIndices :
        CrossesStrictly(Vertices(triangle)[e[1]], Vertices(triangle)[e[2]])}) = 1

(* C5: a triangle with exactly one edge crossing the plane strictly between
   its endpoints gives true and one segment, both of whose endpoints lie on
   edges of the triangle in XY projection *)
C5_OneCrossingEdgeGivesSegment ==
    (pc = "tri_done" /\ ExactlyOneEdgeCrosses) =>
        /\ found
        /\ OnSomeEdgeXY(output_segment.start_point)
        /\ OnSomeEdgeXY(output_segment.end_point)

(* The third vertex (index k) is on the plane and the crossing edge meets
   the plane within epsilon of it in XY *)
CrossingMeetsVertex ==
    \E e \in EdgeIndices : \E k \in 1..3 :
        /\ k \notin {e[1], e[2]}
        /\ CrossesStrictly(Vertices(triangle)[e[1]], Vertices(triangle)[e[2]])
        /\ NearPlanePointOfLine(Vertices(triangle)[k], Vertices(triangle)[e[1]],
                                Vertices(triangle)[e[2]])

(* C5 amended: with exactly one strictly crossing edge the opposite vertex is
   on the plane; the call gives true and one segment with both endpoints on
   edges of the triangle unless the crossing point is within epsilon of that
   vertex in XY, and then it gives false *)
C5_OneCrossingEdgeAmended ==
    (pc = "tri_done" /\ ExactlyOneEdgeCrosses) =>
        /\ \E k \in 1..3 : OnPlane(Vertices(triangle)[k])
        /\ found <=> ~CrossingMeetsVertex
        /\ found => /\ OnSomeEdgeXY(output_segment.start_point)
                    /\ OnSomeEdgeXY(output_segment.end_point)
                    /\ output_segment.start_point # output_segment.end_point

C5_Witness ==
    /\ pc = "tri_done"
    /\ ExactlyOneEdgeCrosses
    /\ found
    /\ output_segment.end_point.q > 1 \/ output_segment.start_point.q > 1

(* C6: when both endpoints of an edge are within epsilon of the plane, the
   call does not return the segment joining the XY positions of that edge's
   endpoints, wherever the third vertex is *)
C6_NoSegmentForInPlaneEdge ==
    pc = "tri_done" =>
        \A e \in TriEdges :
            (OnPlane(e[1]) /\ OnPlane(e[2])) =>
                ~(/\ found
                  /\ {output_segment.start_point, output_segment.end_point}
                        = {Point(e[1].x, e[1].y, 0), Point(e[2].x, e[2].y, 0)})

AllAbove == Above(triangle.a) /\ Above(triangle.b) /\ Above(triangle.c)

AllBelow == Below(triangle.a) /\ Below(triangle.b) /\ Below(triangle.c)

(* C7: a triangle wholly above or wholly below the plane (by more than
   epsilon) gives false: nothing is recorded and no segment is written *)
C7_NoSegmentOffPlane ==
    (pc = "tri_done" /\ (AllAbove \/ AllBelow)) =>
        /\ ~found
        /\ intersections = <<>>
        /\ output_segment = NoSegment

C7_Witness ==
    /\ pc = "tri_done"
    /\ AllAbove
    /\ triangle.a.z # triangle.b.z
    /\ ~points_close_2d(triangle.a, triangle.b, epsilon)

AllOnPlane == OnPlane(triangle.a) /\ OnPlane(triangle.b) /\ OnPlane(triangle.c)

(* C8: a triangle whose three vertices are all within epsilon of the plane
   gives false: every edge is skipped and no intersection is recorded *)
C8_NoSegmentCoplanar ==
    (pc = "tri_done" /\ AllOnPlane) =>
        /\ ~found
        /\ intersections = <<>>
        /\ output_segment = NoSegment

C8_Witness ==
    /\ pc = "tri_done"
    /\ AllOnPlane
    /\ ~found
    /\ ~points_close_2d(triangle.a, triangle.b, epsilon)
    /\ ~points_close_2d(triangle.b, triangle.c, epsilon)
    /\ ~points_close_2d(triangle.a, triangle.c, epsilon)

(* Exactly one vertex touches the plane and the other two are strictly on
   one side of it *)
OneVertexTouches ==
    \E k \in 1..3 :
        /\ OnPlane(Vertices(triangle)[k])
        /\ \/ \A m \in (1..3) \ {k} : Above(Vertices(triangle)[m])
           \/ \A m \in (1..3) \ {k} : Below(Vertices(triangle)[m])

(* C9: for every triangle and plane, degenerate ones included (TriCall has
   no guard but pc and no failure outcome), the call gives true exactly when
   the intersection points collected over the three edges, no two of them
   within epsilon in XY, are 2, and then the segment joins these two;
   otherwise it gives false and writes no segment, as when a single vertex
   touches the plane *)
C9_SegmentIffTwoIntersections ==
    pc = "tri_done" =>
        /\ found <=> Len(intersections) = 2
        /\ \A i, j \in 1..Len(intersections) :
              i # j => ~points_close_2d(intersections[i], intersections[j],
                                        epsilon)
        /\ found => output_segment = Segment2D(intersections[1], intersections[2])
        /\ ~found => output_segment = NoSegment
        /\ OneVertexTouches => (~found /\ Len(intersections) = 1)

C9_Witness ==
    /\ pc = "tri_done"
    /\ OneVertexTouches
    /\ ~found
    /\ ~points_close_2d(triangle.a, triangle.b, epsilon)
    /\ ~points_close_2d(triangle.b, triangle.c, epsilon)
    /\ ~points_close_2d(triangle.a, triangle.c, epsilon)

----------------------------------------------------------------------------
(* Claims about slice_triangle_mesh_layers (specification SpecSlice) *)

(* The z coordinates of all the vertices of the mesh *)
MeshZs == UNION {{triangles[k].a.z, triangles[k].b.z, triangles[k].c.z}
                 : k \in 1..Len(triangles)}

MeshMinZ == CHOOSE z \in MeshZs : \A w \in MeshZs : z <= w

MeshMaxZ == CHOOSE z \in MeshZs : \A w \in MeshZs : z >= w

Sliced == pc = "slice_done" /\ triangles # <<>> /\ layer_height > 0

LastLayer == layers[Len(layers)]

(* C2: for a non-empty mesh and dz > 0 the call returns
   floor((max_z - min_z)/dz + 1 + 1e-12) layers, the count n with
   min_z + (n-1)*dz <= max_z < min_z + n*dz on the grid, layer i (from 0) has
   z = min_z + i*dz, so z increases strictly and the first z is min_z; a
   mesh spanning four layer heights (0..2 at dz = 0.5) gives 5 layers *)
C2_LayerCountAndHeights ==
    Sliced =>
        /\ Len(layers) >= 1
        /\ MeshMinZ + (Len(layers) - 1) * layer_height <= MeshMaxZ
        /\ MeshMinZ + Len(layers) * layer_height > MeshMaxZ
        /\ \A i \in 1..Len(layers) :
              layers[i].z = MeshMinZ + (i - 1) * layer_height
        /\ \A i \in 1..(Len(layers) - 1) : layers[i].z < layers[i + 1].z
        /\ layers[1].z = MeshMinZ
        /\ MeshMaxZ - MeshMinZ = 4 * layer_height =>
              [i \in 1..Len(layers) |-> layers[i].z]
                 = [i \in 1..5 |-> MeshMinZ + (i - 1) * layer_height]

C2_Witness ==
    /\ Sliced
    /\ MeshMinZ = 0
    /\ MeshMaxZ = 4 * layer_height
    /\ Len(layers) = 5

(* C3: for a non-empty mesh and dz > 0 there is a layer at min_z (the first)
   and a layer at max_z (the last) *)
C3_BothExtremesSampled ==
    Sliced => (layers[1].z = MeshMinZ /\ LastLayer.z = MeshMaxZ)

(* C3 amended: the first layer is at min_z; the last layer is at max_z when
   max_z - min_z is a whole multiple of dz, and otherwise lies below max_z
   by less than dz *)
C3_ExtremesSampledOnMultiples ==
    Sliced =>
        /\ layers[1].z = MeshMinZ
        /\ LastLayer.z <= MeshMaxZ
        /\ MeshMaxZ - LastLayer.z < layer_height
        /\ LastLayer.z = MeshMaxZ <=> (MeshMaxZ - MeshMinZ) % layer_height = 0

C3_Witness ==
    /\ Sliced
    /\ Len(layers) >= 2
    /\ LastLayer.z < MeshMaxZ

(* C4: with an empty triangle list, or a layer height that is zero or
   negative, the call returns no layers, whatever the other argument is (the
   call has no error outcome: Slice is defined on every input) *)
C4_EmptyResultForTrivialInput ==
    (pc = "slice_done" /\ (triangles = <<>> \/ layer_height <= 0)) =>
        layers = <<>>

C4_Witness ==
    /\ pc = "slice_done"
    /\ triangles # <<>>
    /\ layer_height < 0
    /\ layers = <<>>

----------------------------------------------------------------------------
(* Claims about stitch_segments_into_paths on arbitrary segments
   (specification SpecStitch) *)

InputIds == 1..Len(input_segments)

(* The emitted paths that took the input segment id *)
PathsUsing(id) == {k \in 1..Len(polyline_ids) : id \in polyline_ids[k]}

(* No endpoint of input segment id is within epsilon of an endpoint of
   another input segment *)
MatchesNothing(id) ==
    \A other \in InputIds \ {id} :
        \A p \in {input_segments[id].start_point, input_segments[id].end_point} :
            \A r \in {input_segments[other].start_point,
                      input_segments[other].end_point} :
                ~points_close_2d(p, r, epsilon)

AllConsumedOnce ==
    pc = "stitch_done" =>
        /\ line_segments = <<>>
        /\ Len(polylines) = Len(polyline_ids)
        /\ \A id \in InputIds : Cardinality(PathsUsing(id)) = 1
        /\ \A k \in 1..Len(polylines) :
              /\ polyline_ids[k] # {}
              /\ polyline_ids[k] \subseteq InputIds
              /\ Len(polylines[k]) >= Cardinality(polyline_ids[k]) + 1
        /\ \A id \in InputIds :
              MatchesNothing(id) =>
                 \E k \in 1..Len(polylines) :
                    /\ polyline_ids[k] = {id}
                    /\ polylines[k] = <<input_segments[id].start_point,
                                        input_segments[id].end_point>>

(* A natural number that every step of the call decreases *)
StitchVariant ==
    3 * Len(line_segments)
    + (IF pc = "stitch_scan" THEN 2 ELSE IF pc = "stitch_loop" THEN 1 ELSE 0)

(* C10: the call terminates on every input and rejects none: every step
   decreases StitchVariant and a step is possible until the call has
   returned; when it returns the pool is empty and every input segment has
   gone into exactly one output path; a segment that matches nothing is a
   2-point path of its own *)
C10_TerminatesAllConsumedOnce ==
    /\ [][StitchVariant' < StitchVariant]_vars
    /\ [](StitchVariant >= 0)
    /\ [](pc \in {"stitch_loop", "stitch_scan"} => ENABLED NextStitch)
    /\ []AllConsumedOnce

C10_Witness ==
    /\ pc = "stitch_done"
    /\ Len(input_segments) = 3
    /\ Len(polylines) = 2
    /\ \E id \in InputIds : MatchesNothing(id)
    /\ \E k \in 1..2 : Cardinality(polyline_ids[k]) = 2

----------------------------------------------------------------------------
(* Claims about the paths and segments handed between the three functions *)

(* The stitcher closed the emitted path k: a path stitched from n segments
   has n + 1 points, and one more when the closing point was pushed *)
PathClosed(k) == Len(polylines[k]) = Cardinality(polyline_ids[k]) + 2

(* C11: every path that stitch_segments_into_paths emits (the paths of a
   layer are the paths of one such call) has at least 2 points, and every
   path the stitcher closed has its first and last points within the
   stitching tolerance of each other *)
C11_PathsHaveTwoPointsClosedOnesMeet ==
    \A k \in 1..Len(polylines) :
        /\ Len(polylines[k]) >= 2
        /\ Len(polylines[k]) \in {Cardinality(polyline_ids[k]) + 1,
                                  Cardinality(polyline_ids[k]) + 2}
        /\ PathClosed(k) =>
              points_close_2d(Front(polylines[k]), Back(polylines[k]), epsilon)

C11_Witness ==
    /\ pc = "stitch_done"
    /\ \E k \in 1..Len(polylines) :
          PathClosed(k) /\ Cardinality(polyline_ids[k]) = MaxSegs
          /\ Cardinality({polylines[k][i] : i \in 1..Len(polylines[k])}) >= 2

(* C12: every segment for which triangle_plane_segment returns true, the
   segments the slicer gives to the stitcher, has endpoints that are not
   within epsilon of each other in XY (|dx| > epsilon or |dy| > epsilon), so
   it is no zero-length segment, and both endpoints have z = 0 *)
C12_SegmentEndpointsDistinctPlanar ==
    (pc = "tri_done" /\ found) =>
        LET s == output_segment.start_point
            e == output_segment.end_point
        IN  /\ \/ Abs(s.x * e.q - e.x * s.q) > epsilon * s.q * e.q
               \/ Abs(s.y * e.q - e.y * s.q) > epsilon * s.q * e.q
            /\ s # e
            /\ s.z = 0
            /\ e.z = 0

(* A vertex on the plane, offered by both of its edges and kept once, is an
   endpoint of the segment; the other endpoint is interpolated *)
C12_Witness ==
    /\ pc = "tri_done"
    /\ found
    /\ epsilon = MaxEps
    /\ \E v \in {triangle.a, triangle.b, triangle.c} :
          OnPlane(v) /\ output_segment.start_point = Point(v.x, v.y, 0)
    /\ output_segment.end_point.q > 1

(* No triangle of the mesh gives a segment at height z *)
NoTriangleEmits(z) ==
    \A k \in 1..Len(triangles) :
        ~triangle_plane_segment(triangles[k], z, NoSegment, epsilon).found

(* All the vertices of the mesh are at one z *)
FlatMesh == Cardinality(MeshZs) = 1

(* C13: a sampled height min_z + i*dz <= max_z at which no triangle gives a
   segment still has its layer, with that z and no paths; a flat mesh, all
   vertices at one z, gives exactly one layer, at that z, with no paths *)
C13_EmptyLayersStillEmitted ==
    Sliced =>
        /\ \A i \in 0..((MeshMaxZ - MeshMinZ) \div layer_height) :
              NoTriangleEmits(MeshMinZ + i * layer_height) =>
                 /\ Len(layers) >= i + 1
                 /\ layers[i + 1] = Layer(MeshMinZ + i * layer_height, <<>>)
        /\ FlatMesh => layers = <<Layer(MeshMinZ, <<>>)>>

(* A layer without paths below a layer with a path *)
C13_Witness ==
    /\ Sliced
    /\ ~FlatMesh
    /\ Len(layers) >= 2
    /\ NoTriangleEmits(layers[1].z)
    /\ layers[1].paths = <<>>
    /\ layers[2].paths # <<>>
----------------------------------------------------------------------------
(* Claims about parse_ascii_stl (specification SpecStl) *)

(* The positions of the "vertex" tokens of the stream *)
VertexPositions == {i \in 1..Len(stl_input) : stl_input[i] = "vertex"}

(* The vertex token at i is followed by three numbers *)
WellFormedAt(i) ==
    /\ i + 3 <= Len(stl_input)
    /\ \A j \in 1..3 : stl_input[i + j] \in NumberTexts

MalformedPositions == {i \in VertexPositions : ~WellFormedAt(i)}

(* The well-formed vertex records before the first malformed one *)
RecordPositions ==
    {i \in VertexPositions : \A m \in MalformedPositions : i < m}

(* The position of the record number r, counted from 0 in input order *)
RecordAt(r) ==
    CHOOSE i \in RecordPositions :
        Cardinality({k \in RecordPositions : k < i}) = r

(* The vertex written in the record number r *)
RecordPoint(r) ==
    LET i == RecordAt(r)
    IN  Point(ParseDouble(stl_input[i + 1]), ParseDouble(stl_input[i + 2]),
              ParseDouble(stl_input[i + 3]))

(* C15: with n the number of well-formed vertex records before the first
   malformed one, the call returns floor(n/3) triangles; triangle k (from 0)
   has the vertices of the records 3k, 3k+1, 3k+2 as a, b, c; nothing of or
   after the first malformed record is returned, and the tokens outside
   vertex records change nothing *)
C15_TrianglesFromVertexTriples ==
    pc = "stl_done" =>
        LET n == Cardinality(RecordPositions)
        IN  /\ Len(stl_triangles) = n \div 3
            /\ \A k \in 0..((n \div 3) - 1) :
                  stl_triangles[k + 1] =
                     Triangle(RecordPoint(3 * k), RecordPoint(3 * k + 1),
                              RecordPoint(3 * k + 2))

(* One triangle of three records, a fourth record left over, then a
   malformed record with a well-formed one after it *)
C15_Witness ==
    /\ pc = "stl_done"
    /\ Len(stl_triangles) = 1
    /\ Cardinality(RecordPositions) = 4
    /\ MalformedPositions # {}
    /\ \E i \in VertexPositions : WellFormedAt(i) /\ i \notin RecordPositions
    /\ stl_triangles[1].a # stl_triangles[1].b
----------------------------------------------------------------------------
(* Claims about format_toolpath_gcode (specifications SpecGcodePaths and
   SpecGcodeLayers) *)

(* The number of points of the first k paths *)
RECURSIVE PointsBefore(_, _)
PointsBefore(paths, k) ==
    IF k = 0 THEN 0 ELSE PointsBefore(paths, k - 1) + Len(paths[k])

LinesWith(cmd) == {i \in 1..Len(gcode_out) : gcode_out[i].cmd = cmd}

(* The line moves to the point p: an X and a Y argument whose texts, read
   back as decimal numbers, are within half a unit of the last place of p *)
RECURSIVE DecimalValue(_, _)
DecimalValue(text, k) ==
    IF k = 0 THEN 0
    ELSE IF text[k] \in {"-", "."} THEN DecimalValue(text, k - 1)
    ELSE 10 * DecimalValue(text, k - 1)
         + (CHOOSE d \in 0..9 : DigitChars[d + 1] = text[k])

Decimals(text) ==
    IF \E k \in 1..Len(text) : text[k] = "."
    THEN Len(text) - (CHOOSE k \in 1..Len(text) : text[k] = ".")
    ELSE 0

(* text is num/den rounded to the precision used, with that many decimals *)
TextOf(text, num, den) ==
    LET places == ClampPrecision(precision)
    IN  /\ Decimals(text) = places
        /\ (text[1] = "-") <=> (num < 0)
        /\ 2 * Abs(DecimalValue(text, Len(text)) * den - Abs(num) * Pow10(places))
              <= den

MovesTo(line, p) ==
    /\ Len(line.args) = 2
    /\ line.args[1][1] = "X" /\ TextOf(line.args[1][2], p.x, p.q)
    /\ line.args[2][1] = "Y" /\ TextOf(line.args[2][2], p.y, p.q)

(* C16: for each non-empty path, in input order, there is one G0 line for
   its first point followed by one G1 line for each further point in
   order; an empty path gives no line and a path of one point only its G0;
   so the G0 lines are as many as the non-empty paths and the lines as many
   as the points *)
C16_OneG0PerPathOneLinePerPoint ==
    pc = "gcode_paths_done" =>
        /\ Len(gcode_out) = PointsBefore(gcode_paths, Len(gcode_paths))
        /\ Cardinality(LinesWith("G0"))
              = Cardinality({k \in 1..Len(gcode_paths) : gcode_paths[k] # <<>>})
        /\ \A k \in 1..Len(gcode_paths) :
              \A i \in 1..Len(gcode_paths[k]) :
                 LET line == gcode_out[PointsBefore(gcode_paths, k - 1) + i]
                 IN  /\ line.cmd = (IF i = 1 THEN "G0" ELSE "G1")
                     /\ MovesTo(line, gcode_paths[k][i])

(* An empty path before a path of three points, not all the same *)
C16_Witness ==
    /\ pc = "gcode_paths_done"
    /\ Len(gcode_paths) = 2
    /\ gcode_paths[1] = <<>>
    /\ Len(gcode_paths[2]) = 3
    /\ gcode_paths[2][2] # gcode_paths[2][3]
    /\ precision = 0
    /\ Len(gcode_out) = 3

(* The number of lines of the first k layers: a height line and a line for
   each point *)
RECURSIVE LinesBefore(_, _)
LinesBefore(lays, k) ==
    IF k = 0 THEN 0
    ELSE LinesBefore(lays, k - 1) + 1
         + PointsBefore(lays[k].paths, Len(lays[k].paths))

HeightLines == {i \in 1..Len(gcode_out) : gcode_out[i].args[1][1] = "Z"}

(* C17: the layers come out in input order; each layer has exactly one
   "G0 Z<z>" line, which stands after all the moves of the layer before it
   and before all the moves of its own layer; a layer without paths still
   has its height line, and no layers give an empty string *)
C17_HeightLineOpensEachLayer ==
    pc = "gcode_layers_done" =>
        /\ Len(gcode_out) = LinesBefore(gcode_layers, Len(gcode_layers))
        /\ Cardinality(HeightLines) = Len(gcode_layers)
        /\ gcode_layers = <<>> => gcode_out = <<>>
        /\ \A k \in 1..Len(gcode_layers) :
              LET first == LinesBefore(gcode_layers, k - 1) + 1
                  last == LinesBefore(gcode_layers, k)
              IN  /\ gcode_out[first].cmd = "G0"
                  /\ Len(gcode_out[first].args) = 1
                  /\ first \in HeightLines
                  /\ TextOf(gcode_out[first].args[1][2], gcode_layers[k].z, 1)
                  /\ \A i \in (first + 1)..last : i \notin HeightLines
                  /\ SubSeq(gcode_out, first + 1, last)
                        = format_toolpath_gcode(gcode_layers[k].paths, precision)

(* A layer without paths between two layers with paths, the heights not in
   increasing order *)
C17_Witness ==
    /\ pc = "gcode_layers_done"
    /\ Len(gcode_layers) = 3
    /\ gcode_layers[1].paths # <<>>
    /\ gcode_layers[2].paths = <<>>
    /\ Len(gcode_layers[3].paths) = 3
    /\ gcode_layers[1].z > gcode_layers[3].z
    /\ HeightLines = {1, Len(gcode_out) - 3, Len(gcode_out) - 4}
----------------------------------------------------------------------------
(* Claims about generate_rectangle_perimeters and generate_circle_perimeters
   (specification SpecPerimeters) *)

(* The offsets k for which the rectangle moved inward k times is not used
   up: min + k*spacing < max - k*spacing on both axes *)
RectangleOffsets ==
    {k \in 0..MaxSide :
        /\ rectangle.min_x + k * spacing < rectangle.max_x - k * spacing
        /\ rectangle.min_y + k * spacing < rectangle.max_y - k * spacing}

(* Every point of the loop p lies strictly within the corners of the loop o *)
LiesInside(p, o) ==
    \A i \in 1..Len(p) :
        /\ o[1].x < p[i].x /\ p[i].x < o[3].x
        /\ o[1].y < p[i].y /\ p[i].y < o[3].y

RectangleResult ==
    (pc = "rectangle_done" /\ spacing > 0) =>
        /\ Len(perimeter_paths) = Cardinality(RectangleOffsets)
        /\ \A k \in 0..(Len(perimeter_paths) - 1) :
              /\ k \in RectangleOffsets
              /\ perimeter_paths[k + 1]
                    = RectangleLoop(Inward(rectangle, k * spacing))
              /\ Len(perimeter_paths[k + 1]) = 5
              /\ Back(perimeter_paths[k + 1]) = Front(perimeter_paths[k + 1])
              /\ k > 0 => LiesInside(perimeter_paths[k + 1], perimeter_paths[k])
        /\ (rectangle.max_x - rectangle.min_x = 8
            /\ rectangle.max_y - rectangle.min_y = 6 /\ spacing = 2)
              => Len(perimeter_paths) = 2
        /\ (rectangle.max_x - rectangle.min_x = 2
            /\ rectangle.max_y - rectangle.min_y = 2 /\ spacing = 5)
              => Len(perimeter_paths) = 1
        /\ (rectangle.max_x = rectangle.min_x \/ rectangle.max_y = rectangle.min_y)
              => perimeter_paths = <<>>

(* A natural number that every step of the rectangle call decreases *)
RectangleVariant ==
    IF pc = "rectangle_call" THEN 2 * MaxSide + 3
    ELSE IF pc = "rectangle_loop"
         THEN 1 + (IF RectangleLeft(bounds)
                   THEN Min2(bounds.max_x - bounds.min_x,
                             bounds.max_y - bounds.min_y)
                   ELSE 0)
    ELSE 0

(* C18: for spacing > 0 the call returns one loop for each offset
   k = 0, 1, 2, ... with min + k*spacing < max - k*spacing on both axes,
   outermost first, and then stops: every step decreases RectangleVariant
   and a step is possible until the return (8x6 with spacing 2 gives 2
   loops, 2x2 with spacing 5 gives 1, a rectangle without width or height
   none); every loop has 5 points, the last equal to the first, and lies
   inside the loop before it *)
C18_RectangleLoopsPerOffset ==
    /\ []RectangleResult
    /\ [][(pc \in {"rectangle_call", "rectangle_loop"})
            => (RectangleVariant' < RectangleVariant)]_vars
    /\ [](RectangleVariant >= 0)
    /\ [](pc \in {"rectangle_call", "rectangle_loop"} => ENABLED NextRectangle)

C18_Witness ==
    /\ pc = "rectangle_done"
    /\ rectangle = Rectangle(0, 0, 8, 6)
    /\ spacing = 2
    /\ perimeter_paths = <<RectangleLoop(Rectangle(0, 0, 8, 6)),
                           RectangleLoop(Rectangle(2, 2, 6, 4))>>

(* The numbers k of the radii r - k*spacing that are still positive *)
CircleRadii == {k \in 0..MaxRadius : circle.radius - k * spacing > 0}

(* C19: for spacing > 0 and num_segments >= 3 the call returns one loop for
   each radius r, r - spacing, r - 2*spacing, ... that is still > 0, in
   that order (radius 5 with spacing 2 gives 3 loops, radius 2 with
   spacing 5 gives 1); every loop has num_segments + 1 points, the points
   at the angles i / num_segments of a turn for i = 0 .. num_segments - 1
   and then a copy of the first *)
C19_CircleLoopsPerRadius ==
    (pc = "circle_done" /\ spacing > 0 /\ num_segments >= 3) =>
        /\ Len(perimeter_paths) = Cardinality(CircleRadii)
        /\ \A k \in 0..(Len(perimeter_paths) - 1) :
              LET loop == perimeter_paths[k + 1]
              IN  /\ k \in CircleRadii
                  /\ Len(loop) = num_segments + 1
                  /\ \A i \in 1..num_segments :
                        loop[i] = CirclePoint(circle, circle.radius - k * spacing,
                                              i - 1, num_segments)
                  /\ Back(loop) = Front(loop)
        /\ (circle.radius = 5 /\ spacing = 2) => Len(perimeter_paths) = 3
        /\ (circle.radius = 2 /\ spacing = 5) => Len(perimeter_paths) = 1

C19_Witness ==
    /\ pc = "circle_done"
    /\ circle.radius = 5
    /\ spacing = 2
    /\ num_segments = MaxSegments
    /\ Len(perimeter_paths) = 3
    /\ Len(perimeter_paths[3]) = MaxSegments + 1
    /\ perimeter_paths[3][1].radius = 1

(* C20: invalid parameters give an empty result, with no error and no
   loop: with spacing <= 0 the rectangle call, and with spacing <= 0 or
   num_segments < 3 the circle call, can take its early return, never
   enters its loop and has no paths when it has returned *)
C20_InvalidParametersGiveNoPaths ==
    /\ (pc \in {"rectangle_call", "rectangle_loop", "rectangle_done"}
        /\ spacing <= 0) =>
          /\ pc = "rectangle_call" => ENABLED RectangleReject
          /\ pc # "rectangle_loop"
          /\ perimeter_paths = <<>>
    /\ (pc \in {"circle_call", "circle_loop", "circle_done"}
        /\ (spacing <= 0 \/ num_segments < 3)) =>
          /\ pc = "circle_call" => ENABLED CircleReject
          /\ pc # "circle_loop"
          /\ perimeter_paths = <<>>

(* A circle call with a positive spacing and two segments has returned *)
C20_Witness ==
    /\ pc = "circle_done"
    /\ spacing > 0
    /\ num_segments = 2
    /\ perimeter_paths = <<>>
----------------------------------------------------------------------------
(* Claims about the constructors of Rectangle and Circle (specification
   SpecShapes) *)

(* C21: constructing a Rectangle throws invalid_argument exactly when
   min_x > max_x or min_y > max_y; every other input, a rectangle with
   min = max on an axis included, gives an object whose four fields hold
   the arguments; constructing a Circle throws invalid_argument exactly
   when radius <= 0, and otherwise the object holds the arguments *)
C21_ConstructorsThrowOnInvalid ==
    /\ pc = "rectangle_constructed" =>
          /\ shape_thrown \in {"none", "invalid_argument"}
          /\ shape_thrown = "invalid_argument"
                <=> (shape_args[1] > shape_args[3] \/ shape_args[2] > shape_args[4])
          /\ shape_thrown = "none" =>
                /\ shape_object.min_x = shape_args[1]
                /\ shape_object.min_y = shape_args[2]
                /\ shape_object.max_x = shape_args[3]
                /\ shape_object.max_y = shape_args[4]
          /\ shape_thrown # "none" => shape_object = <<>>
    /\ pc = "circle_constructed" =>
          /\ shape_thrown \in {"none", "invalid_argument"}
          /\ shape_thrown = "invalid_argument" <=> shape_args[3] <= 0
          /\ shape_thrown = "none" =>
                /\ shape_object.center_x = shape_args[1]
                /\ shape_object.center_y = shape_args[2]
                /\ shape_object.radius = shape_args[3]
          /\ shape_thrown # "none" => shape_object = <<>>

(* A rectangle without width, of positive height, is accepted *)
C21_Witness ==
    /\ pc = "rectangle_constructed"
    /\ shape_args[1] = shape_args[3]
    /\ shape_args[2] < shape_args[4]
    /\ shape_thrown = "none"
    /\ shape_object = Rectangle(shape_args[1], shape_args[2], shape_args[1],
                                shape_args[4])
----------------------------------------------------------------------------
(* Claims about line_segments_intersect_2d (specification SpecIntersect) *)

(* The largest denominator of the parameter of a common point of two
   segments with endpoints in EndPoints *)
MaxDenominator == 2 * (MaxXY + 1)

(* The XY projections of the closed segments [a, b] and [c, d] share a
   point: a + (i/n)(b - a) = c + (j/n)(d - c) for some 0 <= i, j <= n *)
ShareXYPoint(a, b, c, d) ==
    \E n \in 1..MaxDenominator :
        \E i, j \in 0..n :
            /\ n * a.x + i * (b.x - a.x) = n * c.x + j * (d.x - c.x)
            /\ n * a.y + i * (b.y - a.y) = n * c.y + j * (d.y - c.y)

(* The point p moved into the plane z = 0 *)
Flat(p) == Point(p.x, p.y, 0)

(* C22: the call gives true exactly when the XY projections of [a, b] and
   [c, d] share a point; the result does not depend on the z coordinates,
   and it is the same with the two segments swapped or either reversed *)
C22_IntersectIffXYProjectionsMeet ==
    pc = "intersect_done" =>
        LET a == intersect_args[1]
            b == intersect_args[2]
            c == intersect_args[3]
            d == intersect_args[4]
        IN  /\ intersect_result = ShareXYPoint(a, b, c, d)
            /\ intersect_result
                  = line_segments_intersect_2d(Flat(a), Flat(b), Flat(c), Flat(d),
                                               epsilon)
            /\ intersect_result = line_segments_intersect_2d(c, d, a, b, epsilon)
            /\ intersect_result = line_segments_intersect_2d(b, a, c, d, epsilon)
            /\ intersect_result = line_segments_intersect_2d(a, b, d, c, epsilon)

(* With all four points at one z the call gives true exactly when the
   projections share a point, and swapping or reversing changes nothing *)
IntersectRightInOnePlane ==
    pc = "intersect_done" =>
        LET a == intersect_args[1]
            b == intersect_args[2]
            c == intersect_args[3]
            d == intersect_args[4]
        IN  /\ (a.z = b.z /\ b.z = c.z /\ c.z = d.z) =>
                  intersect_result = ShareXYPoint(a, b, c, d)
            /\ intersect_result = line_segments_intersect_2d(c, d, a, b, epsilon)
            /\ intersect_result = line_segments_intersect_2d(b, a, c, d, epsilon)
            /\ intersect_result = line_segments_intersect_2d(a, b, d, c, epsilon)
            /\ intersect_result => ShareXYPoint(a, b, c, d)

----------------------------------------------------------------------------
(* Claims about the air hockey table (specification SpecHockey) *)

(* The call of puck_hit_locations has passed its check or thrown *)
PuckCalled == pc \in {"puck_thrown", "puck_loop", "puck_done"}

(* The puck is being simulated or the call has returned *)
PuckRunning == pc \in {"puck_loop", "puck_done"}

(* The point p lies outside [0, length] x [0, width] *)
OutsideTable(p, length, width) ==
    \/ p.x < 0
    \/ p.y < 0
    \/ p.x > length * p.q
    \/ p.y > width * p.q

(* C23: the constructor throws invalid_argument exactly when length or width
   is non-finite or <= 0, puck_hit_locations throws out_of_range exactly
   when the initial position is outside [0, length] x [0, width], and in
   both cases nothing has been simulated *)
C23_InvalidInputThrowsBeforeSimulating ==
    /\ pc # "hockey_construct" =>
          (pc = "hockey_rejected"
             <=> \E k \in 1..2 : ~hockey_args[k].finite \/ hockey_args[k].value <= 0)
    /\ pc = "hockey_rejected" =>
          hockey_thrown = "invalid_argument" /\ hits = <<>> /\ hit_index = 0
    /\ PuckCalled =>
          (pc = "puck_thrown" <=> OutsideTable(initial_position, length_, width_))
    /\ pc = "puck_thrown" =>
          hockey_thrown = "out_of_range" /\ hits = <<>> /\ hit_index = 0
    /\ PuckRunning => hockey_thrown = "none"

(* A start on the right wall is accepted, and the puck has moved *)
C23_Witness ==
    /\ pc = "puck_loop"
    /\ initial_position.x = length_ * initial_position.q
    /\ hit_index > 0

(* No wall can be reached in finite positive time from position p with
   velocity v: on each axis the puck does not move, or stands at the wall it
   is heading to *)
NoWallAhead(p, v, length, width) ==
    \/ ~v.finite
    \/ /\ \/ v.x = 0
          \/ v.x > 0 /\ p.x = length * p.q
          \/ v.x < 0 /\ p.x = 0
       /\ \/ v.y = 0
          \/ v.y > 0 /\ p.y = width * p.q
          \/ v.y < 0 /\ p.y = 0

(* C24: every entry of hits is on the table with z = 0; the entries from the
   loop index on are the default point; the loop stops early only where no
   wall can be reached, and it does stop there *)
C24_HitsOnTableAndPrefix ==
    PuckRunning =>
        /\ \A k \in 1..hits_size :
              /\ ~OutsideTable(hits[k], length_, width_)
              /\ hits[k].z = 0
        /\ \A k \in (hit_index + 1)..hits_size : hits[k] = NoPoint
        /\ (pc = "puck_done" /\ hit_index < hits_size)
              => NoWallAhead(position, velocity, length_, width_)
        /\ (pc = "puck_loop" /\ hit_index > 0)
              => ~NoWallAhead(position, velocity, length_, width_)

(* All ten hits are computed from a start off the plane z = 0, and the last
   one is off the corners *)
C24_Witness ==
    /\ pc = "puck_done"
    /\ hit_index = hits_size
    /\ initial_position.z # 0
    /\ hits[hits_size].y # 0
    /\ hits[hits_size].y # width_ * hits[hits_size].q

(* C25: launched parallel to the x axis, all ten contacts are computed,
   they alternate between x = length and x = 0 starting with the wall the
   puck is heading to, and y stays at its initial value *)
C25_BouncesBetweenVerticalWalls ==
    (pc = "puck_done" /\ angle.finite /\ angle.y = 0) =>
        /\ hit_index = hits_size
        /\ \A k \in 1..hits_size :
              /\ hits[k].y * initial_position.q = initial_position.y * hits[k].q
              /\ hits[k].x = (IF (angle.x > 0) = (k % 2 = 1) THEN length_ ELSE 0)
                               * hits[k].q

(* The times to the next vertical and to the next horizontal wall are
   finite and equal *)
CornerAhead ==
    LET tx == TimeToNextWall(position.x, position.q, velocity.finite,
                             velocity.x, 0, length_)
        ty == TimeToNextWall(position.y, position.q, velocity.finite,
                             velocity.y, 0, width_)
    IN  tx.finite /\ ty.finite /\ tx.n * ty.d = ty.n * tx.d

(* The puck was launched at 45 degrees from the centre of a square table *)
DiagonalFromCentre ==
    /\ length_ = width_
    /\ initial_position.x * 2 = length_ * initial_position.q
    /\ initial_position.y * 2 = width_ * initial_position.q
    /\ angle.finite /\ angle.x > 0 /\ angle.x = angle.y

(* C26: a contact where the times to both walls coincide is at a corner and
   reverses both velocity components; from the centre of a square table at
   45 degrees the ten contacts alternate between (length, width) and (0, 0) *)
C26_CornerReversesBoth ==
    /\ [][(pc = "puck_loop" /\ hit_index' = hit_index + 1 /\ CornerAhead)
            => /\ velocity'.x = -velocity.x
               /\ velocity'.y = -velocity.y
               /\ position'.x \in {0, length_ * position'.q}
               /\ position'.y \in {0, width_ * position'.q}]_vars
    /\ [](pc = "puck_done" /\ DiagonalFromCentre =>
            /\ hit_index = hits_size
            /\ \A k \in 1..hits_size :
                  hits[k] = IF k % 2 = 1 THEN Point(length_, width_, 0)
                            ELSE Point(0, 0, 0))

(* The diagonal launch has returned after visiting both corners *)
C26_Witness ==
    /\ pc = "puck_done"
    /\ DiagonalFromCentre
    /\ hits[1] = Point(length_, width_, 0)
    /\ hits[2] = Point(0, 0, 0)

(* The point r lies on the ray from p along v, beyond p *)
OnRay(p, v, r) ==
    LET dx == r.x * p.q - p.x * r.q
        dy == r.y * p.q - p.y * r.q
    IN  /\ dx * v.y = dy * v.x
        /\ dx * v.x + dy * v.y > 0

(* C28 (what it implies for one contact): the new position is on the ray
   from the previous position along the velocity and on a wall; each
   velocity component keeps its magnitude, a component is negated only if
   the contact is on a wall normal to it, and one of them is negated *)
C28_StraightLinesMirrorReflection ==
    [][(pc = "puck_loop" /\ hit_index' = hit_index + 1)
          => /\ OnRay(position, velocity, position')
             /\ \/ position'.x \in {0, length_ * position'.q}
                \/ position'.y \in {0, width_ * position'.q}
             /\ Abs(velocity'.x) = Abs(velocity.x)
             /\ Abs(velocity'.y) = Abs(velocity.y)
             /\ (velocity'.x # velocity.x)
                   => position'.x \in {0, length_ * position'.q}
             /\ (velocity'.y # velocity.y)
                   => position'.y \in {0, width_ * position'.q}
             /\ velocity' # velocity]_vars

----------------------------------------------------------------------------
(* Claims about the paths of stitch_segments_into_paths and the input
   segments they come from (specification SpecStitch) *)

(* The consecutive points p, r are the segment seg taken in one of its two
   directions: one of them is an endpoint of seg, the other is within the
   tolerance of the other endpoint *)
FollowsSegment(p, r, seg, eps) ==
    \/ p = seg.start_point /\ points_close_2d(r, seg.end_point, eps)
    \/ r = seg.end_point /\ points_close_2d(p, seg.start_point, eps)
    \/ p = seg.end_point /\ points_close_2d(r, seg.start_point, eps)
    \/ r = seg.start_point /\ points_close_2d(p, seg.end_point, eps)

(* The first Cardinality(ids) + 1 points of p go along the input segments
   ids, one segment per pair of consecutive points, and every point of p is
   an endpoint of one of them *)
FollowsInput(p, ids) ==
    /\ \E f \in [1..Cardinality(ids) -> ids] :
          /\ \A i, j \in 1..Cardinality(ids) : i # j => f[i] # f[j]
          /\ \A i \in 1..Cardinality(ids) :
                FollowsSegment(p[i], p[i + 1], input_segments[f[i]], epsilon)
    /\ \A i \in 1..Len(p) :
          \E id \in ids : p[i] \in {input_segments[id].start_point,
                                    input_segments[id].end_point}

(* C29: a path built from k segments has k + 1 points before the closing
   step and k + 2 after it is applied, the added point being the first one
   again; the pairs of consecutive points before a closing point are k
   distinct input segments, each in one of its directions, and every point
   is an endpoint of one of them *)
C29_PathsFollowInputSegments ==
    /\ pc = "stitch_scan" =>
          /\ Len(path) = Cardinality(path_ids) + 1
          /\ FollowsInput(path, path_ids)
    /\ \A k \in 1..Len(polylines) :
          /\ Len(polylines[k]) \in {Cardinality(polyline_ids[k]) + 1,
                                    Cardinality(polyline_ids[k]) + 2}
          /\ PathClosed(k) => Back(polylines[k]) = Front(polylines[k])
          /\ FollowsInput(polylines[k], polyline_ids[k])

(* A closed path of MaxSegs segments through three different points has
   been emitted *)
C29_Witness ==
    /\ pc = "stitch_done"
    /\ \E k \in 1..Len(polylines) :
          /\ PathClosed(k)
          /\ Cardinality(polyline_ids[k]) = MaxSegs
          /\ Cardinality({polylines[k][i] : i \in 1..Len(polylines[k])}) = 3

(* The endpoints of the input segments *)
InputEndpoints ==
    {input_segments[id].start_point : id \in InputIds}
        \cup {input_segments[id].end_point : id \in InputIds}

(* The input segments that have p as an endpoint *)
SegmentsAt(p) ==
    {id \in InputIds : p \in {input_segments[id].start_point,
                              input_segments[id].end_point}}

(* Matching is exact: endpoints within the tolerance are equal *)
ExactMatching ==
    \A p, r \in InputEndpoints : points_close_2d(p, r, epsilon) => p = r

(* Every endpoint is shared by at most two segments *)
AtMostTwoPerEndpoint ==
    \A p \in InputEndpoints : Cardinality(SegmentsAt(p)) <= 2

(* while (found_match), with the input indices of the pool (ids) and of
   the segments attached so far (group) carried along *)
RECURSIVE ExtendGroup(_, _, _, _)
ExtendGroup(p, pool, ids, group) ==
    LET i == FirstMatch(p, pool, epsilon)
    IN  IF i = 0 THEN [pool |-> pool, ids |-> ids, group |-> group]
        ELSE ExtendGroup(AttachSegment(p, pool[i], epsilon), Erase(pool, i),
                         Erase(ids, i), group \cup {ids[i]})

(* while (!line_segments.empty()), likewise: the input indices that go into
   each path, in the order of the paths *)
RECURSIVE StitchGroups(_, _, _)
StitchGroups(pool, ids, groups) ==
    IF pool = <<>> THEN groups
    ELSE LET ext == ExtendGroup(<<Back(pool).start_point, Back(pool).end_point>>,
                                Erase(pool, Len(pool)), Erase(ids, Len(ids)),
                                {Back(ids)})
         IN  StitchGroups(ext.pool, ext.ids, Append(groups, ext.group))

(* How many times each segment occurs among the input segments of group *)
SegmentCounts(group) ==
    [seg \in {input_segments[id] : id \in InputIds} |->
        Cardinality({id \in group : input_segments[id] = seg})]

(* The paths as collections of segments, whatever the order of the paths *)
Grouping(groups) == {SegmentCounts(groups[k]) : k \in 1..Len(groups)}

(* The input segments in the order perm *)
Reordered(perm) == [k \in InputIds |-> input_segments[perm[k]]]

(* The call on every reordering of the input gives as many paths as the
   call made, with the same segments in each path *)
StableUnderReordering ==
    /\ polylines = stitch_segments_into_paths(input_segments, epsilon)
    /\ polyline_ids
          = StitchGroups(input_segments, [k \in InputIds |-> k], <<>>)
    /\ \A perm \in Permutations1(Len(input_segments)) :
          /\ Len(stitch_segments_into_paths(Reordered(perm), epsilon))
                = Len(polylines)
          /\ Len(StitchGroups(Reordered(perm), perm, <<>>)) = Len(polylines)
          /\ Grouping(StitchGroups(Reordered(perm), perm, <<>>))
                = Grouping(polyline_ids)

(* C27: for every input, every permutation of it gives the same number of
   paths and the same segments in the same paths *)
C27_StableUnderReordering ==
    pc = "stitch_done" => StableUnderReordering

(* C27 as amended: the same for inputs in which every endpoint is shared by
   at most two segments and matching is exact *)
C27_StableOnCleanInput ==
    (pc = "stitch_done" /\ AtMostTwoPerEndpoint /\ ExactMatching)
        => StableUnderReordering

(* A clean input of MaxSegs segments in two paths has been stitched *)
C27_Witness ==
    /\ pc = "stitch_done"
    /\ AtMostTwoPerEndpoint
    /\ ExactMatching
    /\ Len(input_segments) = MaxSegs
    /\ Len(polylines) = 2

----------------------------------------------------------------------------
(* Claims about stitch_segments_into_paths on clean input (specification
   SpecClean) *)

(* The endpoints of the input segment id *)
EndsOf(id) == {input_segments[id].start_point, input_segments[id].end_point}

(* The input segments i and j share an endpoint *)
Adjacent(i, j) == EndsOf(i) \cap EndsOf(j) # {}

(* The segments reached from those of S in at most n steps of Adjacent *)
RECURSIVE Grow(_, _)
Grow(S, n) ==
    IF n = 0 THEN S
    ELSE Grow(S \cup {j \in InputIds : \E i \in S : Adjacent(i, j)}, n - 1)

(* The connected components of the segment graph *)
Components == {Grow({id}, Len(input_segments)) : id \in InputIds}

(* The endpoints that exactly one segment of the component g has *)
FreeEndpoints(g) ==
    {p \in UNION {EndsOf(id) : id \in g} :
        Cardinality({id \in g : p \in EndsOf(id)}) = 1}

(* C30: on clean input with exact matching, in every input order, the paths
   are the connected components of the segment graph, one path each; a
   component without a free endpoint (a cycle) is a path that the closing
   step closed, and any other component (a chain) is an open path from one
   of its two free endpoints to the other *)
C30_OnePathPerComponent ==
    pc = "stitch_done" =>
        /\ Len(polylines) = Cardinality(Components)
        /\ {polyline_ids[k] : k \in 1..Len(polylines)} = Components
        /\ \A k \in 1..Len(polylines) :
              IF FreeEndpoints(polyline_ids[k]) = {}
              THEN /\ PathClosed(k)
                   /\ Back(polylines[k]) = Front(polylines[k])
              ELSE /\ ~PathClosed(k)
                   /\ Cardinality(FreeEndpoints(polyline_ids[k])) = 2
                   /\ {Front(polylines[k]), Back(polylines[k])}
                         = FreeEndpoints(polyline_ids[k])

(* A cycle and a chain have been stitched from one input *)
C30_Witness ==
    /\ pc = "stitch_done"
    /\ Len(polylines) = 2
    /\ \E k \in 1..2 : PathClosed(k)
    /\ \E k \in 1..2 : ~PathClosed(k)

====
